---- MODULE Spec2Model ----
(***************************************************************************)
(* Infinite-canvas rendering engine of the cya repository: the viewport    *)
(* controller (useViewport.ts), the texture loader (useTextureLoader.ts),  *)
(* the sprite pool (useSpritePool) and the frame driver (PixiCanvas).      *)
(*                                                                         *)
(* Numbers of the program are JavaScript doubles.  They are kept here in   *)
(* fixed point:                                                            *)
(*   zoom      in units of 1/10000           (0.3  is 3000)                *)
(*   world pan in units of 1/100 pixel       (1 px is 100)                 *)
(*   velocity  in units of 1/1000 pixel per frame                          *)
(*   opacity, scale in units of 1/10000                                    *)
(* Products are rounded toward zero, as MulDiv does.  Times are kept as    *)
(* ages relative to performance.now(): the code only ever reads            *)
(* differences of time stamps.                                             *)
(***************************************************************************)
EXTENDS Integers, Sequences, FiniteSets, TLC

VARIABLES vp,        \* the refs of useViewport
          vpAux,     \* history: gestures used, ticks of the running momentum
          tl,        \* the refs of useTextureLoader
          tlAux,     \* history of the texture loader's calls
          pool,      \* the refs of useSpritePool
          poolAux,   \* history: the arguments of the last update, their changes
          cv,        \* the refs and props of PixiCanvas, and the frame it has asked for
          peer       \* a second PixiCanvas mounted on the same page

\* "null" of a ref that holds an object or null: <<>>, and <<obj>> otherwise
Null == <<>>
Some(x) == <<x>>

Abs(a) == IF a < 0 THEN -a ELSE a
Min(a, b) == IF a < b THEN a ELSE b
Max(a, b) == IF a > b THEN a ELSE b

\* a * n / d of doubles, rounded toward zero
MulDiv(a, n, d) == IF a >= 0 THEN (a * n) \div d ELSE -(((-a) * n) \div d)

(***************************************************************************)
(* canvas-utils: constants                                                 *)
(***************************************************************************)
CARD_SIZE == 240
CARD_GAP == 16
CELL_SIZE == CARD_SIZE + CARD_GAP
MIN_ZOOM == 2000
MAX_ZOOM == 20000
DEFAULT_ZOOM == 3000
\* FRICTION = 0.92, as a percentage
FRICTION == 92
\* VELOCITY_STOP_THRESHOLD = 0.05 px per frame, in 1/1000 px per frame
VELOCITY_STOP_THRESHOLD == 50
DRAG_SAMPLE_WINDOW_MS == 100
\* ZOOM_LERP_SPEED = 0.15, as a percentage
ZOOM_LERP_SPEED == 15
SHUFFLE_DURATION == 600
RECENTER_DURATION == 500
\* |zoomDiff| > 0.001 of tick, in zoom units
ZOOM_EPSILON == 10

\* units per pixel of the world coordinates
PX == 10 * 10
\* zoom units per 1.0
ZU == 100 * 100

(***************************************************************************)
(* Bounds of the model                                                     *)
(***************************************************************************)
\* number of items of the collection
NumConcepts == 4
\* gestures of the viewport a behaviour may hold: a handler call is one gesture,
\* except the moves and the end of a drag or pinch in progress, which belong to
\* the gesture that started it (ticks are not counted)
MaxGestures == 1
\* moves one drag or pinch may hold
MaxMoves == 1
\* frames that may pass while a drag or a pinch is in progress
MaxHoldFrames == 2
\* milliseconds between two frames
FrameMs == 90
\* calls of markVisible and markOffscreen in one run of the loader
MaxMarks == 2
\* times the arguments of the pool's update differ from those of the call before
MaxPoolChanges == 2
\* changes of the arguments of update in cluster mode, the first call included
MaxClusterChanges == 2
\* updates a cluster is given to converge
MaxConvergeFrames == 70

(***************************************************************************)
(* canvas-utils: grid                                                      *)
(***************************************************************************)
\* Math.ceil(Math.sqrt(count * 1.2))
GridCols(count) == CHOOSE c \in 0..(count + 1) :
                      /\ 10 * c * c >= 12 * count
                      /\ \A d \in 0..(count + 1) : 10 * d * d >= 12 * count => d >= c

computeGridConfig(count) ==
  LET cols == GridCols(count)
      rows == (count + cols - 1) \div cols
  IN [cols |-> cols, rows |-> rows,
      tileWidth |-> cols * CELL_SIZE, tileHeight |-> rows * CELL_SIZE,
      totalConcepts |-> count]

gridConfig == computeGridConfig(NumConcepts)

\* pixels
getCardWorldPosition(index, config) ==
  [x |-> (index % config.cols) * CELL_SIZE, y |-> (index \div config.cols) * CELL_SIZE]

\* world units
getGridCenter(config) ==
  [x |-> (config.tileWidth * PX) \div 2, y |-> (config.tileHeight * PX) \div 2]

\* the position getRandomGridPosition returns when Math.random() picks randomIndex
getRandomGridPosition(config, randomIndex) ==
  LET pos == getCardWorldPosition(randomIndex, config)
  IN [x |-> pos.x * PX + (CARD_SIZE * PX) \div 2, y |-> pos.y * PX + (CARD_SIZE * PX) \div 2]

clampZoomNoMax(zoom) == Max(MIN_ZOOM, zoom)

clampZoom(zoom) == Max(MIN_ZOOM, Min(MAX_ZOOM, zoom))

\* 1 - (1 - t)^3 with t in 1/100, the result in 1/1000
easeOutCubic(t) == (100 * 100 * 100 - (100 - t) * (100 - t) * (100 - t)) \div 1000

\* (screen - viewportSize / 2) / zoom, in world units; screen and size in pixels
ScreenOffset(screen, viewportSize, zoom) ==
  MulDiv(2 * screen - viewportSize, (PX * ZU) \div 2, zoom)

zoomTowardPoint(currentPan, currentZoom, newZoom, screenX, screenY, viewportWidth, viewportHeight) ==
  LET worldX == currentPan.x + ScreenOffset(screenX, viewportWidth, currentZoom)
      worldY == currentPan.y + ScreenOffset(screenY, viewportHeight, currentZoom)
  IN [x |-> worldX - ScreenOffset(screenX, viewportWidth, newZoom),
      y |-> worldY - ScreenOffset(screenY, viewportHeight, newZoom)]

(***************************************************************************)
(* useViewport: state                                                      *)
(***************************************************************************)
Point(px, py) == [x |-> px, y |-> py]

\* the refs right after useViewport(gridConfig) has run
ViewportInit(config) ==
  [pan |-> getGridCenter(config),
   zoom |-> DEFAULT_ZOOM,
   targetZoom |-> DEFAULT_ZOOM,
   zoomFocus |-> Null,
   size |-> [width |-> 0, height |-> 0],
   velocity |-> Point(0, 0),
   isDragging |-> FALSE,
   dragSamples |-> <<>>,
   lastDragPos |-> Point(0, 0),
   isPinching |-> FALSE,
   pinchStartDistance |-> 0,
   pinchStartZoom |-> ZU,
   animation |-> Null]

\* performance.now() moves on by dt: every stored time stamp grows older.  An age
\* is kept up to the largest value the code tells apart.
Elapse(v, dt) ==
  [v EXCEPT
     !.dragSamples = [i \in 1..Len(v.dragSamples) |->
                        [v.dragSamples[i] EXCEPT !.t = Min(@ + dt, 2 * DRAG_SAMPLE_WINDOW_MS)]],
     !.animation = IF v.animation = Null THEN Null
                   ELSE Some([v.animation[1] EXCEPT !.elapsed = Min(@ + dt, v.animation[1].duration)])]

setSize(v, width, height) == [v EXCEPT !.size = [width |-> width, height |-> height]]

(***************************************************************************)
(* useViewport: drag                                                       *)
(***************************************************************************)
onDragStart(v, screenX, screenY) ==
  [v EXCEPT !.isDragging = TRUE,
            !.lastDragPos = Point(screenX, screenY),
            !.dragSamples = << [x |-> screenX, y |-> screenY, t |-> 0] >>,
            !.animation = Null,
            !.velocity = Point(0, 0)]

onDragMove(v, screenX, screenY) ==
  IF ~v.isDragging THEN v
  ELSE LET dx == screenX - v.lastDragPos.x
           dy == screenY - v.lastDragPos.y
           pushed == Append(v.dragSamples, [x |-> screenX, y |-> screenY, t |-> 0])
       IN [v EXCEPT !.pan = Point(v.pan.x - MulDiv(dx, PX * ZU, v.zoom),
                                  v.pan.y - MulDiv(dy, PX * ZU, v.zoom)),
                    !.lastDragPos = Point(screenX, screenY),
                    !.dragSamples = SelectSeq(pushed, LAMBDA s : s.t < DRAG_SAMPLE_WINDOW_MS * 2)]

\* the velocity onDragEnd derives from the samples, or the old one when it sets none
DragEndVelocity(v) ==
  LET recentSamples == SelectSeq(v.dragSamples, LAMBDA s : s.t < DRAG_SAMPLE_WINDOW_MS)
  IN IF Len(recentSamples) >= 2
     THEN LET first == recentSamples[1]
              last == recentSamples[Len(recentSamples)]
              dt == first.t - last.t
          IN IF dt > 0
             THEN Point(-MulDiv(last.x - first.x, 16670, dt), -MulDiv(last.y - first.y, 16670, dt))
             ELSE v.velocity
     ELSE v.velocity

onDragEnd(v) ==
  IF ~v.isDragging THEN v
  ELSE [v EXCEPT !.isDragging = FALSE,
                 !.velocity = DragEndVelocity(v),
                 !.dragSamples = <<>>]

(***************************************************************************)
(* useViewport: wheel, pinch, slider                                       *)
(***************************************************************************)
\* targetZoomRef.current * factor, factor = 1.1 or 1 / 1.1
WheelTarget(targetZoom, deltaY) ==
  IF deltaY > 0 THEN MulDiv(targetZoom, 10, 11) ELSE MulDiv(targetZoom, 11, 10)

onWheel(v, deltaY, screenX, screenY) ==
  [v EXCEPT !.animation = Null,
            !.targetZoom = clampZoom(WheelTarget(v.targetZoom, deltaY)),
            !.zoomFocus = Some(Point(screenX, screenY))]

\* the value of 0 / 0, which no zoom and no pan of the model equals
NaN == -(2 ^ 30)

onPinchStart(v, distance, centerX, centerY) ==
  [v EXCEPT !.isPinching = TRUE,
            !.pinchStartDistance = distance,
            !.pinchStartZoom = v.zoom,
            !.animation = Null,
            !.velocity = Point(0, 0)]

\* scale is distance / pinchStartDistance: 0 / 0 is NaN, and clampZoom(NaN) is
\* NaN; a positive distance over 0 is Infinity, which clampZoom takes to
\* MAX_ZOOM.  zoomTowardPoint with a NaN among its zooms or pans gives NaN.
onPinchMove(v, distance, centerX, centerY) ==
  IF ~v.isPinching THEN v
  ELSE LET newZoom == IF v.pinchStartZoom = NaN THEN NaN
                      ELSE IF v.pinchStartDistance = 0
                           THEN IF distance = 0 THEN NaN ELSE clampZoom(MAX_ZOOM + 1)
                           ELSE clampZoom(MulDiv(v.pinchStartZoom, distance, v.pinchStartDistance))
       IN [v EXCEPT !.pan = IF NaN \in {newZoom, v.zoom, v.pan.x, v.pan.y}
                             THEN Point(NaN, NaN)
                             ELSE zoomTowardPoint(v.pan, v.zoom, newZoom, centerX, centerY,
                                                  v.size.width, v.size.height),
                    !.zoom = newZoom]

onPinchEnd(v) == [v EXCEPT !.isPinching = FALSE, !.targetZoom = v.zoom]

setZoom(v, zoom) ==
  [v EXCEPT !.targetZoom = clampZoom(zoom),
            !.zoomFocus = Some(Point(v.size.width \div 2, v.size.height \div 2))]

(***************************************************************************)
(* useViewport: scripted animations                                        *)
(***************************************************************************)
animateTo(v, targetPan, targetZoom, duration) ==
  [v EXCEPT !.velocity = Point(0, 0),
            !.animation = Some([startPan |-> v.pan, endPan |-> targetPan,
                                startZoom |-> v.zoom, endZoom |-> targetZoom,
                                elapsed |-> 0, duration |-> duration])]

shuffle(v, config, randomIndex) ==
  animateTo(v, getRandomGridPosition(config, randomIndex), v.zoom, SHUFFLE_DURATION)

recenter(v, config) ==
  animateTo(v, getGridCenter(config), DEFAULT_ZOOM, RECENTER_DURATION)

(***************************************************************************)
(* useViewport: tick                                                       *)
(***************************************************************************)
\* squared length of the velocity
Speed2(vel) == vel.x * vel.x + vel.y * vel.y

ApplyFrictionNone(c) == c

\* vel.x *= FRICTION
ApplyFriction(c) == MulDiv(c, FRICTION, 100)

\* the scripted-animation part of tick (lines 256-275): the viewport and whether
\* the animation goes on
TickAnimation(v) ==
  IF v.animation = Null THEN [v |-> v, animating |-> FALSE]
  ELSE LET anim == v.animation[1]
           t == Min((anim.elapsed * 100) \div anim.duration, 100)
           ease == easeOutCubic(t)
           newZoom == anim.startZoom + MulDiv(anim.endZoom - anim.startZoom, ease, 1000)
       IN [v |-> [v EXCEPT
                    !.pan = Point(anim.startPan.x + MulDiv(anim.endPan.x - anim.startPan.x, ease, 1000),
                                  anim.startPan.y + MulDiv(anim.endPan.y - anim.startPan.y, ease, 1000)),
                    !.zoom = newZoom,
                    !.targetZoom = newZoom,
                    !.animation = IF t >= 100 THEN Null ELSE v.animation],
           animating |-> t < 100]

\* a smooth zoom whose last step clears the focal point and leaves the zoom short
\* of its target
TickSmoothZoomNoSnap(v, hadAnim) ==
  IF hadAnim THEN [v |-> v, animating |-> FALSE]
  ELSE LET zoomDiff == v.targetZoom - v.zoom
       IN IF Abs(zoomDiff) > ZOOM_EPSILON
          THEN LET newZoom == v.zoom + MulDiv(zoomDiff, ZOOM_LERP_SPEED, 100)
                   focus == IF v.zoomFocus # Null THEN v.zoomFocus[1]
                            ELSE Point(v.size.width \div 2, v.size.height \div 2)
               IN [v |-> [v EXCEPT !.pan = zoomTowardPoint(v.pan, v.zoom, newZoom, focus.x, focus.y,
                                                           v.size.width, v.size.height),
                                   !.zoom = newZoom],
                   animating |-> TRUE]
          ELSE [v |-> [v EXCEPT !.zoomFocus = Null], animating |-> FALSE]

\* the smooth-zoom part of tick (lines 278-307); hadAnim: an animation was set
\* when tick began
TickSmoothZoom(v, hadAnim) ==
  IF hadAnim THEN [v |-> v, animating |-> FALSE]
  ELSE LET zoomDiff == v.targetZoom - v.zoom
       IN IF Abs(zoomDiff) > ZOOM_EPSILON
          THEN LET newZoom == v.zoom + MulDiv(zoomDiff, ZOOM_LERP_SPEED, 100)
                   focus == IF v.zoomFocus # Null THEN v.zoomFocus[1]
                            ELSE Point(v.size.width \div 2, v.size.height \div 2)
               IN [v |-> [v EXCEPT !.pan = zoomTowardPoint(v.pan, v.zoom, newZoom, focus.x, focus.y,
                                                           v.size.width, v.size.height),
                                   !.zoom = newZoom],
                   animating |-> TRUE]
          ELSE IF v.zoomFocus # Null
               THEN [v |-> [v EXCEPT !.zoom = v.targetZoom, !.zoomFocus = Null], animating |-> FALSE]
               ELSE [v |-> v, animating |-> FALSE]

\* the momentum part of tick (lines 310-323)
TickMomentum(v) ==
  LET vel == v.velocity
  IN IF Speed2(vel) > VELOCITY_STOP_THRESHOLD * VELOCITY_STOP_THRESHOLD
     THEN [v |-> [v EXCEPT !.pan = Point(v.pan.x + MulDiv(vel.x, ZU \div 10, v.zoom),
                                         v.pan.y + MulDiv(vel.y, ZU \div 10, v.zoom)),
                           !.velocity = Point(ApplyFriction(vel.x), ApplyFriction(vel.y))],
           animating |-> TRUE]
     ELSE IF Speed2(vel) > 0
          THEN [v |-> [v EXCEPT !.velocity = Point(0, 0)], animating |-> FALSE]
          ELSE [v |-> v, animating |-> FALSE]

\* tick(): the viewport after it and the value it returns
ViewportTick(v) ==
  LET a == TickAnimation(v)
      z == TickSmoothZoom(a.v, v.animation # Null)
      m == TickMomentum(z.v)
  IN [v |-> m.v, animating |-> a.animating \/ z.animating \/ m.animating]

isIdle(v) ==
  /\ ~v.isDragging
  /\ ~v.isPinching
  /\ v.animation = Null
  /\ Speed2(v.velocity) <= VELOCITY_STOP_THRESHOLD * VELOCITY_STOP_THRESHOLD
  /\ Abs(v.targetZoom - v.zoom) < ZOOM_EPSILON

(***************************************************************************)
(* canvas-utils: the cards a viewport shows.  World and screen coordinates *)
(* are in 1/PX pixel; distanceFromCenter is in whole pixels squared.       *)
(***************************************************************************)
\* getViewport() of useViewport
getViewport(v) ==
  [pan |-> v.pan, zoom |-> v.zoom, width |-> v.size.width, height |-> v.size.height]

\* the key that ignores the tile
getCardKeyNoTile(index, tileX, tileY) == <<index>>

\* the text of the key as the sequence of its parts: a run of digits is the
\* number it writes, "-" is -1 (and "cluster" is -2)
getCardKey(index, tileX, tileY) ==
  LET text(n) == IF n < 0 THEN <<-1, -n>> ELSE <<n>>
  IN text(index) \o <<-1>> \o text(tileX) \o <<-1>> \o text(tileY)

\* a margin taken off the viewport's bounds
VisibleMarginInward == -(CELL_SIZE * PX)

\* const margin = CELL_SIZE, in world units
VisibleMargin == CELL_SIZE * PX

getVisibleCards(viewport, config, concepts) ==
  LET halfViewW == MulDiv(viewport.width * PX, ZU, 2 * viewport.zoom)
      halfViewH == MulDiv(viewport.height * PX, ZU, 2 * viewport.zoom)
      margin == VisibleMargin
      worldLeft == viewport.pan.x - halfViewW - margin
      worldRight == viewport.pan.x + halfViewW + margin
      worldTop == viewport.pan.y - halfViewH - margin
      worldBottom == viewport.pan.y + halfViewH + margin
      screenCenterX == (viewport.width * PX) \div 2
      screenCenterY == (viewport.height * PX) \div 2
      cardScreenSize == MulDiv(CARD_SIZE * PX, viewport.zoom, ZU)
      tileWidth == config.tileWidth * PX
      tileHeight == config.tileHeight * PX
      cell == CELL_SIZE * PX
      startTileX == worldLeft \div tileWidth
      endTileX == worldRight \div tileWidth
      startTileY == worldTop \div tileHeight
      endTileY == worldBottom \div tileHeight
      Card(tileX, tileY, row, col) ==
        LET index == row * config.cols + col
            worldX == tileX * tileWidth + col * cell
            worldY == tileY * tileHeight + row * cell
            screenX == MulDiv(worldX - viewport.pan.x, viewport.zoom, ZU) + screenCenterX
            screenY == MulDiv(worldY - viewport.pan.y, viewport.zoom, ZU) + screenCenterY
            dx == MulDiv(screenX + (cardScreenSize \div 2) - screenCenterX, 1, PX)
            dy == MulDiv(screenY + (cardScreenSize \div 2) - screenCenterY, 1, PX)
        IN [concept |-> concepts[(index % Len(concepts)) + 1],
            index |-> index, worldX |-> worldX, worldY |-> worldY,
            tileX |-> tileX, tileY |-> tileY,
            screenX |-> screenX, screenY |-> screenY, screenSize |-> cardScreenSize,
            distanceFromCenter |-> dx * dx + dy * dy]
      TileCards(tileX, tileY) ==
        LET startCol == Max(0, (worldLeft - tileX * tileWidth) \div cell)
            endCol == Min(config.cols - 1, (worldRight - tileX * tileWidth) \div cell)
            startRow == Max(0, (worldTop - tileY * tileHeight) \div cell)
            endRow == Min(config.rows - 1, (worldBottom - tileY * tileHeight) \div cell)
            numCols == Max(0, endCol - startCol + 1)
            numRows == Max(0, endRow - startRow + 1)
        IN [k \in 1..(numRows * numCols) |->
              Card(tileX, tileY, startRow + ((k - 1) \div numCols), startCol + ((k - 1) % numCols))]
      tilesX == endTileX - startTileX + 1
      tilesY == endTileY - startTileY + 1
      visible[t \in 0..(tilesX * tilesY)] ==
        IF t = 0 THEN <<>>
        ELSE visible[t - 1] \o TileCards(startTileX + ((t - 1) % tilesX), startTileY + ((t - 1) \div tilesX))
  IN visible[tilesX * tilesY]

(***************************************************************************)
(* useTextureLoader: configuration.  The capacities are those of the       *)
(* source scaled down, so that a handful of urls fills the cache and the   *)
(* load slots: MAX_TEXTURE_COUNT 150, EVICTION_BATCH_SIZE 30,              *)
(* THUMB_CONCURRENT_LOADS 8 (4 dispatched per call), MEDIUM_CONCURRENT_    *)
(* LOADS 4 (2 per call), and the queue is processed every 10th frame.      *)
(***************************************************************************)
MAX_TEXTURE_COUNT == 2
EVICTION_BATCH_SIZE == 2
THUMB_CONCURRENT_LOADS == 2
MEDIUM_CONCURRENT_LOADS == 1
\* loads of a tier one processQueue call dispatches: thumbProcessed >= 4,
\* mediumProcessed >= 2
THUMB_PER_CALL == 1
MEDIUM_PER_CALL == 1
\* frameCount.current % 10
QUEUE_PERIOD == 2

Urls == {"a", "b", "c"}
ImageSizes == {"thumb", "medium"}
\* priorities requestLoad is called with (squared distances from the centre)
Priorities == {1, 2}

(***************************************************************************)
(* useTextureLoader: state.  The maps keep their entries in a sequence:    *)
(* loadQueueMap in insertion order (the order a Map iterates in), and      *)
(* textureCache from the least to the most recently used entry: Date.now() *)
(* is taken to grow between any two uses, so sorting by lastUsed gives     *)
(* that order.                                                             *)
(***************************************************************************)
TextureLoaderInit ==
  [textureCache |-> <<>>,
   loadingSet |-> {},
   loadQueueMap |-> <<>>,
   activeLoads |-> [thumb |-> 0, medium |-> 0],
   frameCount |-> 0,
   offscreenTimers |-> {},
   visibleUrls |-> {},
   \* the Assets.load promises that have not settled: url and size of the call
   pending |-> {}]

SeqUrls(entries) == {entries[i].url : i \in 1..Len(entries)}
CacheHas(t, url) == url \in SeqUrls(t.textureCache)
QueueHas(t, url) == url \in SeqUrls(t.loadQueueMap)
QueueEntry(t, url) == CHOOSE e \in {t.loadQueueMap[i] : i \in 1..Len(t.loadQueueMap)} : e.url = url
RemoveUrl(entries, url) == SelectSeq(entries, LAMBDA e : e.url # url)

\* the first n elements of a sequence
Take(seq, n) == SubSeq(seq, 1, Min(n, Len(seq)))

\* an eviction that destroys nothing
evictIfNeededNever(t) == t

\* an eviction that does not look at visibleUrls
evictIfNeededAll(t) ==
  IF Len(t.textureCache) <= MAX_TEXTURE_COUNT THEN t
  ELSE LET toEvict == SeqUrls(Take(t.textureCache, EVICTION_BATCH_SIZE))
       IN [t EXCEPT !.textureCache = SelectSeq(t.textureCache, LAMBDA e : e.url \notin toEvict)]

evictIfNeeded(t) ==
  IF Len(t.textureCache) <= MAX_TEXTURE_COUNT THEN t
  ELSE LET entries == t.textureCache
           toEvict == SeqUrls(Take(SelectSeq(entries, LAMBDA e : e.url \notin t.visibleUrls),
                                   EVICTION_BATCH_SIZE))
       IN [t EXCEPT !.textureCache = SelectSeq(entries, LAMBDA e : e.url \notin toEvict)]

\* getTexture(url): the loader after it; it returns a texture iff CacheHas(t, url)
getTexture(t, url) ==
  IF CacheHas(t, url)
  THEN LET entry == CHOOSE e \in {t.textureCache[i] : i \in 1..Len(t.textureCache)} : e.url = url
       IN [t EXCEPT !.textureCache = Append(RemoveUrl(t.textureCache, url), entry)]
  ELSE t

\* loadTexture up to its await: the guard, loadingSet.add, activeLoads[size]++
loadTextureStart(t, url, size) ==
  IF CacheHas(t, url) \/ url \in t.loadingSet THEN t
  ELSE [t EXCEPT !.loadingSet = @ \cup {url},
                 !.activeLoads[size] = @ + 1,
                 !.pending = @ \cup {[url |-> url, size |-> size]}]

\* loadTexture after Assets.load has resolved: the cache entry, the eviction, finally
loadTextureResolved(t, url, size) ==
  LET set == [t EXCEPT !.textureCache = Append(RemoveUrl(t.textureCache, url),
                                               [url |-> url, size |-> size])]
      evicted == evictIfNeeded(set)
  IN [evicted EXCEPT !.loadingSet = @ \ {url},
                     !.activeLoads[size] = @ - 1,
                     !.pending = @ \ {[url |-> url, size |-> size]}]

\* a rejected load whose finally block does not run
loadTextureRejectedNoFinally(t, url, size) ==
  [t EXCEPT !.pending = @ \ {[url |-> url, size |-> size]}]

\* loadTexture after Assets.load has rejected: catch, finally
loadTextureRejected(t, url, size) ==
  [t EXCEPT !.loadingSet = @ \ {url},
            !.activeLoads[size] = @ - 1,
            !.pending = @ \ {[url |-> url, size |-> size]}]

\* activeLoads.current[size] >= cap ends the dispatch loop of a tier
SlotFreeAlways(t, size, cap) == TRUE

SlotFree(t, size, cap) == t.activeLoads[size] < cap

\* a queue left in the order of its insertion
SortByPriorityNone(entries) == entries

\* Array.prototype.sort by ascending priority; the sort is stable
RECURSIVE SortByPriority(_)
SortByPriority(entries) ==
  IF entries = <<>> THEN <<>>
  ELSE LET least == CHOOSE i \in 1..Len(entries) :
                      \A j \in 1..Len(entries) :
                        \/ entries[i].priority < entries[j].priority
                        \/ entries[i].priority = entries[j].priority /\ i <= j
       IN <<entries[least]>> \o
          SortByPriority(SubSeq(entries, 1, least - 1) \o SubSeq(entries, least + 1, Len(entries)))

\* one of the two dispatch loops of processQueue
RECURSIVE DispatchTier(_, _, _, _, _, _)
DispatchTier(t, tierQueue, size, cap, perCall, processed) ==
  IF tierQueue = <<>> \/ ~SlotFree(t, size, cap) \/ processed >= perCall THEN t
  ELSE LET url == Head(tierQueue).url
           dequeued == [t EXCEPT !.loadQueueMap = RemoveUrl(@, url)]
       IN DispatchTier(loadTextureStart(dequeued, url, size), Tail(tierQueue),
                       size, cap, perCall, processed + 1)

processQueue(t) ==
  LET counted == [t EXCEPT !.frameCount = (@ + 1) % QUEUE_PERIOD]
  IN IF Len(t.loadQueueMap) = 0 THEN counted
     ELSE IF counted.frameCount # 0 THEN counted
     ELSE LET kept == SelectSeq(t.loadQueueMap,
                                LAMBDA e : ~(CacheHas(t, e.url) \/ e.url \in t.loadingSet))
              thumbQueue == SortByPriority(SelectSeq(kept, LAMBDA e : e.size = "thumb"))
              mediumQueue == SortByPriority(SelectSeq(kept, LAMBDA e : e.size # "thumb"))
              thumbsDone == DispatchTier([counted EXCEPT !.loadQueueMap = kept], thumbQueue, "thumb",
                                         THUMB_CONCURRENT_LOADS, THUMB_PER_CALL, 0)
          IN DispatchTier(thumbsDone, mediumQueue, "medium",
                          MEDIUM_CONCURRENT_LOADS, MEDIUM_PER_CALL, 0)

\* priority < existing.priority: the queued entry is replaced
BetterPriorityAlways(priority, existing) == TRUE

BetterPriority(priority, existing) == priority < existing

\* a requestLoad that queues a url whether or not it is cached or being loaded
requestLoadUnguarded(t, url, priority, size) ==
  IF QueueHas(t, url) THEN t
  ELSE [t EXCEPT !.loadQueueMap = Append(@, [url |-> url, priority |-> priority, size |-> size])]

requestLoad(t, url, priority, size) ==
  IF CacheHas(t, url) THEN t
  ELSE IF url \in t.loadingSet THEN t
  ELSE IF QueueHas(t, url)
       THEN IF BetterPriority(priority, QueueEntry(t, url).priority)
            THEN LET i == CHOOSE k \in 1..Len(t.loadQueueMap) : t.loadQueueMap[k].url = url
                 IN [t EXCEPT !.loadQueueMap[i] = [url |-> url, priority |-> priority, size |-> size]]
            ELSE t
       ELSE [t EXCEPT !.loadQueueMap = Append(@, [url |-> url, priority |-> priority, size |-> size])]

markVisible(t, url) ==
  [t EXCEPT !.visibleUrls = @ \cup {url},
            !.offscreenTimers = @ \ {url}]

markOffscreen(t, url) ==
  LET unmarked == [t EXCEPT !.visibleUrls = @ \ {url}]
  IN IF url \in t.offscreenTimers THEN unmarked
     ELSE IF ~CacheHas(t, url) THEN unmarked
     ELSE [unmarked EXCEPT !.offscreenTimers = @ \cup {url}]

\* the timer callback, with the entry left in the cache
offscreenTimerFiredKeep(t, url) == [t EXCEPT !.offscreenTimers = @ \ {url}]

\* the callback markOffscreen gave to setTimeout
offscreenTimerFired(t, url) ==
  LET fired == [t EXCEPT !.offscreenTimers = @ \ {url}]
  IN IF url \in t.visibleUrls THEN fired
     ELSE [fired EXCEPT !.textureCache = RemoveUrl(@, url)]

clearQueue(t) == [t EXCEPT !.loadQueueMap = <<>>]

hasPendingLoads(t) ==
  Len(t.loadQueueMap) > 0 \/ t.activeLoads.thumb > 0 \/ t.activeLoads.medium > 0


(***************************************************************************)
(* useSpritePool.  Alpha and scale are in 1/AU, positions in world units.  *)
(* A texture is named by the url it was loaded from.  The container        *)
(* transform, the cover fit and the rounded-corner mask only draw and are  *)
(* left out.                                                               *)
(***************************************************************************)
AU == 10 * PX

\* percent per update
LERP_SPEED == 12

CLUSTER_CARD_SCALE == AU

\* the zoom from which the mid-resolution image is wanted; canvas-utils of
\* the sources has no value for it
LOAD_MID_RES == 5000

getThumbUrl(concept) == concept.thumbnail_url

getMidUrl(concept) == concept.mid_url

\* unit is 1.0 in the units of current and target: the snap distance is 0.5
lerp(current, target, speed, unit) ==
  LET diff == target - current
  IN IF 2 * Abs(diff) < unit THEN target ELSE current + MulDiv(diff, speed, 100)

\* the indices of a set in ascending order
SortAscending(indices) ==
  CHOOSE arr \in [1..Cardinality(indices) -> indices] :
    \A i, j \in 1..Cardinality(indices) : i < j => arr[i] < arr[j]

\* the largest set whose signature is its content (200 in the source)
MaxSignatureSize == 1

\* the joined string as the sequence of its numbers; "size:n" as <<-n>>
getFilterSignature(indices) ==
  IF Cardinality(indices) = 0 THEN <<>>
  ELSE IF Cardinality(indices) > MaxSignatureSize THEN <<-Cardinality(indices)>>
  ELSE SortAscending(indices)

PoolInit ==
  [activeCards |-> <<>>,        \* the Map, in insertion order
   recyclePool |-> <<>>,
   clusterLayout |-> <<>>,      \* concept index -> position
   lastClusterMode |-> FALSE,
   lastFilterSignature |-> <<>>,
   lastClusterCenter |-> [x |-> 0, y |-> 0],
   created |-> 0]               \* the nodes made so far; a node's id is its rank

HasCard(p, key) == \E i \in 1..Len(p.activeCards) : p.activeCards[i].key = key

CardIndex(p, key) == CHOOSE i \in 1..Len(p.activeCards) : p.activeCards[i].key = key

\* an acquireCard that moves a recycled node to its new place and leaves its
\* opacity, scale and image fade as they were
acquireCardStale(p, key, index, x, y) ==
  IF p.recyclePool = <<>>
  THEN [p EXCEPT !.created = @ + 1,
                 !.activeCards = Append(@, [key |-> key, conceptIndex |-> index, containerVisible |-> TRUE,
                                            currentX |-> x, currentY |-> y, targetX |-> x, targetY |-> y,
                                            currentAlpha |-> AU, targetAlpha |-> AU,
                                            currentScale |-> AU, targetScale |-> AU,
                                            imageAlpha |-> 0, currentTextureUrl |-> Null,
                                            hasThumb |-> FALSE, hasMid |-> FALSE,
                                            id |-> p.created + 1, imageSprite |-> Null])]
  ELSE [p EXCEPT !.recyclePool = SubSeq(@, 1, Len(@) - 1),
                 !.activeCards = Append(@, [p.recyclePool[Len(p.recyclePool)] EXCEPT
                                              !.key = key, !.conceptIndex = index,
                                              !.containerVisible = TRUE,
                                              !.currentX = x, !.currentY = y,
                                              !.targetX = x, !.targetY = y])]

acquireCard(p, key, index, x, y) ==
  LET recycled == p.recyclePool # <<>>
      fresh == [key |-> key, conceptIndex |-> index, containerVisible |-> TRUE,
                currentX |-> x, currentY |-> y, targetX |-> x, targetY |-> y,
                currentAlpha |-> AU, targetAlpha |-> AU,
                currentScale |-> AU, targetScale |-> AU,
                imageAlpha |-> 0, currentTextureUrl |-> Null,
                hasThumb |-> FALSE, hasMid |-> FALSE]
      card == IF recycled
              THEN LET popped == p.recyclePool[Len(p.recyclePool)]
                   IN fresh @@ [id |-> popped.id, imageSprite |-> popped.imageSprite]
              ELSE fresh @@ [id |-> p.created + 1, imageSprite |-> Null]
  IN [p EXCEPT !.recyclePool = IF recycled THEN SubSeq(@, 1, Len(@) - 1) ELSE @,
               !.created = IF recycled THEN @ ELSE @ + 1,
               !.activeCards = Append(@, card)]

releaseCard(p, key) ==
  IF ~HasCard(p, key) THEN p
  ELSE LET card == p.activeCards[CardIndex(p, key)]
           released == [card EXCEPT
                          !.containerVisible = FALSE,
                          !.imageSprite = IF @ = Null THEN Null
                                          ELSE Some([texture |-> "EMPTY", visible |-> FALSE]),
                          !.currentTextureUrl = Null,
                          !.hasThumb = FALSE,
                          !.hasMid = FALSE]
       IN [p EXCEPT !.activeCards = SelectSeq(@, LAMBDA c : c.key # key),
                    !.recyclePool = Append(@, released)]

calculateClusterLayout(filteredIndices, viewport, totalConcepts) ==
  LET count == Cardinality(filteredIndices)
      indices == SortAscending(filteredIndices)
      cols == CHOOSE c \in 0..(count + 1) :
                /\ 2 * c * c >= 3 * count
                /\ \A d \in 0..(count + 1) : 2 * d * d >= 3 * count => d >= c
      rows == (count + cols - 1) \div cols
      cell == CELL_SIZE * PX
      startX == viewport.pan.x - (cols * cell) \div 2
      startY == viewport.pan.y - (rows * cell) \div 2
      inset == cell \div 2 - (CARD_SIZE * PX) \div 2
      Place(i) == [x |-> startX + ((i - 1) % cols) * cell + inset,
                   y |-> startY + ((i - 1) \div cols) * cell + inset]
  IN IF count = 0 THEN <<>>
     ELSE [conceptIndex \in filteredIndices |->
             Place(CHOOSE i \in 1..count : indices[i] = conceptIndex)]

\* a node whose position, alpha, scale or visible image has not reached its
\* target: the two tests of update that set isAnimating
Converging(card) ==
  \/ 2 * Abs(card.currentX - card.targetX) > PX
  \/ 2 * Abs(card.currentY - card.targetY) > PX
  \/ 100 * Abs(card.currentAlpha - card.targetAlpha) > AU
  \/ 100 * Abs(card.currentScale - card.targetScale) > AU
  \/ /\ card.imageSprite # Null
     /\ card.imageSprite[1].visible
     /\ 100 * card.imageAlpha < 99 * AU

\* the targets update's loop chooses for an entry of cardsToRender
cardTargets(visibleCard, clusterLayout, filteredIndices, totalConcepts, isClusterMode) ==
  LET conceptIndex == visibleCard.index % totalConcepts
      isFiltering == Cardinality(filteredIndices) < totalConcepts
      isMatching == conceptIndex \in filteredIndices
      toCluster == isClusterMode /\ isMatching /\ conceptIndex \in DOMAIN clusterLayout
      fadeOut == IF isClusterMode THEN ~isMatching ELSE isFiltering /\ ~isMatching
  IN [x |-> IF toCluster THEN clusterLayout[conceptIndex].x ELSE visibleCard.worldX,
      y |-> IF toCluster THEN clusterLayout[conceptIndex].y ELSE visibleCard.worldY,
      alpha |-> IF fadeOut THEN 0 ELSE AU,
      scale |-> IF isClusterMode
                THEN (IF isMatching THEN CLUSTER_CARD_SCALE ELSE MulDiv(AU, 8, 10))
                ELSE (IF fadeOut THEN MulDiv(AU, 9, 10) ELSE AU)]

\* "Set targets" and "Animate current values toward targets"
animateCard(card, target) ==
  [card EXCEPT !.targetX = target.x, !.targetY = target.y,
               !.targetAlpha = target.alpha, !.targetScale = target.scale,
               !.currentX = lerp(@, target.x, LERP_SPEED, PX),
               !.currentY = lerp(@, target.y, LERP_SPEED, PX),
               !.currentAlpha = lerp(@, target.alpha, LERP_SPEED, AU),
               !.currentScale = lerp(@, target.scale, LERP_SPEED, AU)]

\* imageSprite.visible = false
hideImage(card) ==
  [card EXCEPT !.imageSprite = IF @ = Null THEN Null
                               ELSE Some([@[1] EXCEPT !.visible = FALSE])]

\* the two-tier choice of the texture of a node that shows its image;
\* thumbTexture and midTexture say whether the lookups returned a texture
showImage(card, thumbUrl, midUrl, thumbTexture, midTexture) ==
  LET urlToUse == IF midTexture THEN Some(midUrl)
                  ELSE IF thumbTexture THEN Some(thumbUrl) ELSE Null
      hasMid == card.hasMid \/ midTexture
      hasThumb == card.hasThumb \/ (~midTexture /\ thumbTexture)
      isNewTexture == card.currentTextureUrl # urlToUse
      resetFade == isNewTexture /\ (~hasThumb \/ urlToUse = Some(thumbUrl))
  IN IF urlToUse = Null THEN hideImage(card)
     ELSE [card EXCEPT
             !.hasMid = hasMid,
             !.hasThumb = hasThumb,
             !.imageSprite = Some([texture |-> IF isNewTexture THEN urlToUse[1]
                                               ELSE IF @ = Null THEN "EMPTY"
                                               ELSE @[1].texture,
                                   visible |-> TRUE]),
             !.currentTextureUrl = urlToUse,
             !.imageAlpha = lerp(IF resetFade THEN 0 ELSE @, AU, MulDiv(LERP_SPEED, 3, 2), AU)]

\* the loader after the lookups and the requests update makes for a node that
\* shows its image
loadImages(t, thumbUrl, midUrl, wantMid, priority) ==
  LET thumbLooked == getTexture(t, thumbUrl)
      looked == IF wantMid THEN getTexture(thumbLooked, midUrl) ELSE thumbLooked
      thumbAsked == IF ~CacheHas(t, thumbUrl)
                    THEN requestLoad(looked, thumbUrl, priority, "undefined")
                    ELSE looked
  IN IF wantMid /\ ~CacheHas(t, midUrl) /\ thumbUrl # midUrl
     THEN requestLoad(thumbAsked, midUrl, priority, "undefined")
     ELSE thumbAsked

\* "Handle image sprite with two-tier loading" for the animated node moved:
\* the node and the loader after it
renderImage(moved, t, concept, distanceFromCenter, viewport) ==
  LET shouldShowImage == 10 * moved.currentAlpha > AU
      thumbUrl == getThumbUrl(concept)
      midUrl == getMidUrl(concept)
      wantMid == viewport.zoom >= LOAD_MID_RES
  IN IF shouldShowImage
     THEN [card |-> showImage(moved, thumbUrl, midUrl, CacheHas(t, thumbUrl),
                              wantMid /\ CacheHas(t, midUrl)),
           loader |-> loadImages(t, thumbUrl, midUrl, wantMid, distanceFromCenter)]
     ELSE [card |-> hideImage(moved), loader |-> t]

\* the body of update's loop once the node of the entry is in the pool acquired
updateAcquired(st, acquired, key, visibleCard, viewport, filteredIndices, totalConcepts, isClusterMode) ==
  LET imaged == renderImage(animateCard(acquired.activeCards[CardIndex(acquired, key)],
                                        cardTargets(visibleCard, acquired.clusterLayout,
                                                    filteredIndices, totalConcepts,
                                                    isClusterMode)),
                            st.loader, visibleCard.concept, visibleCard.distanceFromCenter,
                            viewport)
  IN [isAnimating |-> st.isAnimating \/ Converging(imaged.card),
      pool |-> [acquired EXCEPT !.activeCards[CardIndex(acquired, key)] = imaged.card],
      loader |-> imaged.loader]

\* the body of update's loop over cardsToRender for one entry; st is the pool,
\* the loader and isAnimating so far
updateCard(st, key, visibleCard, viewport, filteredIndices, concepts, isClusterMode) ==
  updateAcquired(st,
                 IF HasCard(st.pool, key) THEN st.pool
                 ELSE acquireCard(st.pool, key, visibleCard.index,
                                  visibleCard.worldX, visibleCard.worldY),
                 key, visibleCard, viewport, filteredIndices, Len(concepts), isClusterMode)

\* a release loop that does not wait for the fade
releaseUnneededAbrupt(st, key, neededKeys) ==
  IF key \in neededKeys THEN st ELSE [st EXCEPT !.pool = releaseCard(@, key)]

\* the body of update's release loop for one node of the Map
releaseUnneeded(st, key, neededKeys) ==
  IF key \in neededKeys THEN st
  ELSE IF 100 * st.pool.activeCards[CardIndex(st.pool, key)].currentAlpha > AU
       THEN [st EXCEPT
               !.pool.activeCards[CardIndex(st.pool, key)] =
                  [@ EXCEPT !.targetAlpha = 0,
                            !.targetScale = MulDiv(AU, 8, 10),
                            !.currentAlpha = lerp(@, 0, LERP_SPEED, AU),
                            !.currentScale = lerp(@, MulDiv(AU, 8, 10), LERP_SPEED, AU)],
               !.isAnimating = TRUE]
       ELSE [st EXCEPT !.pool = releaseCard(@, key)]

\* "Only recalculate cluster layout when needed": the pool after it
updateClusterLayout(p, viewport, filteredIndices, totalConcepts, isClusterMode) ==
  LET currentSignature == IF isClusterMode THEN getFilterSignature(filteredIndices) ELSE <<>>
      centerMoved == isClusterMode /\
                     (\/ Abs(viewport.pan.x - p.lastClusterCenter.x) > 100 * PX
                      \/ Abs(viewport.pan.y - p.lastClusterCenter.y) > 100 * PX)
  IN IF isClusterMode
     THEN IF currentSignature # p.lastFilterSignature \/ ~p.lastClusterMode \/ centerMoved
          THEN [p EXCEPT !.clusterLayout =
                           calculateClusterLayout(filteredIndices, viewport, totalConcepts),
                         !.lastFilterSignature = currentSignature,
                         !.lastClusterCenter = viewport.pan,
                         !.lastClusterMode = TRUE]
          ELSE [p EXCEPT !.lastClusterMode = TRUE]
     ELSE IF p.lastClusterMode
          THEN [p EXCEPT !.clusterLayout = <<>>, !.lastFilterSignature = <<>>,
                         !.lastClusterMode = FALSE]
          ELSE p

\* the Map cardsToRender, in insertion order: the visible cards of the grid,
\* then in cluster mode a synthetic card for each filtered item that is not
\* visible, in ascending order and 150 at most
cardsToRender(clusterLayout, visibleCards, filteredIndices, concepts, isClusterMode, config) ==
  LET synthetic == SortAscending({c \in filteredIndices :
                                    /\ \A i \in 1..Len(visibleCards) :
                                          visibleCards[i].index % Len(concepts) # c
                                    /\ c \in DOMAIN clusterLayout})
  IN [i \in 1..Len(visibleCards) |->
        [key |-> getCardKey(visibleCards[i].index, visibleCards[i].tileX, visibleCards[i].tileY),
         card |-> visibleCards[i]]]
     \o IF isClusterMode
        THEN [i \in 1..Min(Len(synthetic), 150) |->
                [key |-> <<-2, -1, synthetic[i]>>,
                 card |-> [concept |-> concepts[synthetic[i] + 1], index |-> synthetic[i],
                           worldX |-> getCardWorldPosition(synthetic[i], config).x * PX,
                           worldY |-> getCardWorldPosition(synthetic[i], config).y * PX,
                           tileX |-> 0, tileY |-> 0, screenX |-> 0, screenY |-> 0,
                           screenSize |-> 0, distanceFromCenter |-> 0]]]
        ELSE <<>>

\* update's loop over cardsToRender
renderCards(started, t, cards, viewport, filteredIndices, concepts, isClusterMode) ==
  LET rendered[i \in 0..Len(cards)] ==
        IF i = 0 THEN [isAnimating |-> FALSE, pool |-> started, loader |-> t]
        ELSE updateCard(rendered[i - 1], cards[i].key, cards[i].card,
                        viewport, filteredIndices, concepts, isClusterMode)
  IN rendered[Len(cards)]

\* "Release cards no longer needed", over the nodes the Map had when the loop
\* began, and "Process texture queue"
releaseCards(afterRender, neededKeys) ==
  LET nodes == afterRender.pool.activeCards
      released[i \in 0..Len(nodes)] ==
        IF i = 0 THEN afterRender
        ELSE releaseUnneeded(released[i - 1], nodes[i].key, neededKeys)
  IN [released[Len(nodes)] EXCEPT !.loader = processQueue(@)]

\* update from the loop over cardsToRender on
updateCards(started, t, cards, viewport, filteredIndices, concepts, isClusterMode) ==
  releaseCards(renderCards(started, t, cards, viewport, filteredIndices, concepts, isClusterMode),
               {cards[i].key : i \in 1..Len(cards)})

\* update(visibleCards, viewport, textureLoader, filteredIndices, hoveredIndex,
\* concepts, isClusterMode, gridConfig): the pool and the loader after it, and
\* the value it returns.  filteredIndices is iterated in ascending order.
update(p, t, visibleCards, viewport, filteredIndices, concepts, isClusterMode, config) ==
  LET started == updateClusterLayout(p, viewport, filteredIndices, Len(concepts), isClusterMode)
  IN updateCards(started, t,
                 cardsToRender(started.clusterLayout, visibleCards, filteredIndices,
                               concepts, isClusterMode, config),
                 viewport, filteredIndices, concepts, isClusterMode)

(***************************************************************************)
(* canvas-utils: hit test                                                  *)
(***************************************************************************)
screenToWorld(screenX, screenY, viewport) ==
  [x |-> viewport.pan.x + ScreenOffset(screenX, viewport.width, viewport.zoom),
   y |-> viewport.pan.y + ScreenOffset(screenY, viewport.height, viewport.zoom)]

normalizeToTile(value, tileSize) == ((value % tileSize) + tileSize) % tileSize

\* Null, or the index of the card under the point of the screen
hitTestCard(screenX, screenY, viewport, config, concepts) ==
  LET world == screenToWorld(screenX, screenY, viewport)
      localX == normalizeToTile(world.x, config.tileWidth * PX)
      localY == normalizeToTile(world.y, config.tileHeight * PX)
      col == localX \div (CELL_SIZE * PX)
      row == localY \div (CELL_SIZE * PX)
      cellX == localX % (CELL_SIZE * PX)
      cellY == localY % (CELL_SIZE * PX)
      index == row * config.cols + col
  IN IF cellX > CARD_SIZE * PX \/ cellY > CARD_SIZE * PX THEN Null
     ELSE IF index >= Len(concepts) THEN Null
     ELSE Some(index)

\* the items of the collection: the first has a mid-resolution image of its
\* own, the others have one image for both tiers
concepts ==
  [i \in 1..NumConcepts |-> IF i = 1 THEN [thumbnail_url |-> "a", mid_url |-> "b"]
                                     ELSE [thumbnail_url |-> "a", mid_url |-> "a"]]

(***************************************************************************)
(* PixiCanvas.  visibleCardsCache and lastViewportHash are the variables  *)
(* of the module; one canvas is mounted.  raf counts the frame callbacks   *)
(* asked for and not yet run.  The onZoomChange notifications of tick only *)
(* report the zoom to the slider and are left out.                         *)
(***************************************************************************)
CanvasInit ==
  [app |-> FALSE,               \* appRef.current is set
   startTimer |-> FALSE,        \* the setTimeout of initApp has not fired yet
   isRunning |-> FALSE,
   raf |-> 0,
   hoveredIndex |-> Null,
   isDragging |-> FALSE,
   hasDragged |-> FALSE,
   visibleCardsCache |-> <<>>,
   lastViewportHash |-> Null,
   filteredIndices |-> 0..(NumConcepts - 1),
   isClusterMode |-> FALSE,
   screen |-> [width |-> 40, height |-> 40],      \* app.screen
   clicked |-> Null]            \* the index onCardClick was last called for

\* Math.round(pan), zoom.toFixed(3), width, height
getViewportHash(viewport) ==
  [x |-> (2 * viewport.pan.x + PX) \div (2 * PX),
   y |-> (2 * viewport.pan.y + PX) \div (2 * PX),
   zoom |-> (2 * viewport.zoom + 10) \div 20,
   width |-> viewport.width, height |-> viewport.height]

\* the visible cards of render: computed anew when the hash of the viewport
\* has changed
refreshVisibleCards(c, viewport, forceRecalc) ==
  IF forceRecalc \/ Some(getViewportHash(viewport)) # c.lastViewportHash
  THEN [c EXCEPT !.visibleCardsCache = getVisibleCards(viewport, gridConfig, concepts),
                 !.lastViewportHash = Some(getViewportHash(viewport))]
  ELSE c

\* render from the call of update on; c holds the cards and the hash of this
\* render
renderViewport(c, viewport, p, t) ==
  LET r == update(p, t, c.visibleCardsCache, viewport, c.filteredIndices, concepts,
                  c.isClusterMode, gridConfig)
  IN [canvas |-> c, pool |-> r.pool, loader |-> r.loader, stillAnimating |-> r.isAnimating]

\* render(forceRecalc): the canvas, the pool and the loader after it, and the
\* value it returns
render(c, v, p, t, forceRecalc) ==
  IF ~c.app THEN [canvas |-> c, pool |-> p, loader |-> t, stillAnimating |-> FALSE]
  ELSE renderViewport(refreshVisibleCards(c, getViewport(v), forceRecalc), getViewport(v), p, t)

\* the end of the frame callback: ask for the next frame or stop
tickEnd(ticked, isDragging, r) ==
  IF ticked.animating \/ isDragging \/ r.stillAnimating \/ hasPendingLoads(r.loader)
  THEN [canvas |-> r.canvas, v |-> ticked.v, pool |-> r.pool, loader |-> r.loader]
  ELSE [canvas |-> [r.canvas EXCEPT !.raf = @ - 1, !.isRunning = FALSE],
        v |-> ticked.v, pool |-> r.pool, loader |-> r.loader]

\* the frame callback
tick(c, v, p, t) ==
  tickEnd(ViewportTick(v), c.isDragging, render(c, ViewportTick(v).v, p, t, FALSE))

\* an ensureRunning that asks for a frame whether or not the loop is running
ensureRunningAlways(c) == [c EXCEPT !.isRunning = TRUE, !.raf = @ + 1]

ensureRunning(c) ==
  IF ~c.isRunning THEN [c EXCEPT !.isRunning = TRUE, !.raf = @ + 1] ELSE c

(***************************************************************************)
(* A second PixiCanvas of the same module, with a collection of its own.   *)
(* visibleCardsCache and lastViewportHash are variables of the module, so  *)
(* both instances read and write the ones held in cv.  Of the second       *)
(* instance the model keeps whether it is mounted and the cards its render *)
(* last passed to its sprite pool; its viewport stays where useViewport    *)
(* puts it, and its pool and loader are left out.                          *)
(***************************************************************************)
PeerConcepts == [i \in 1..NumConcepts |-> [thumbnail_url |-> "c", mid_url |-> "c"]]

PeerViewport ==
  getViewport(setSize(ViewportInit(computeGridConfig(Len(PeerConcepts))), 40, 40))

PeerInit == [app |-> FALSE, rendered |-> Null]

\* render(forceRecalc) of the second instance: the module's variables after it
peerRender(c, forceRecalc) ==
  IF forceRecalc \/ Some(getViewportHash(PeerViewport)) # c.lastViewportHash
  THEN [c EXCEPT !.visibleCardsCache = getVisibleCards(PeerViewport,
                                                       computeGridConfig(Len(PeerConcepts)),
                                                       PeerConcepts),
                 !.lastViewportHash = Some(getViewportHash(PeerViewport))]
  ELSE c

PoolAuxInit ==
  [args |-> Null, changes |-> 0, returned |-> FALSE, neededKeys |-> {}, frames |-> 0]

\* history of the loader: the priorities each queued url has been requested
\* with, the load that settled in the last step, what markOffscreen found when
\* it was last called for a url, the calls of markVisible and markOffscreen,
\* the urls requestLoad has been called with since the last processQueue
TlAuxInit ==
  [asked |-> [u \in Urls |-> {}],
   settled |-> Null,
   off |-> [u \in Urls |-> "none"],
   marks |-> 0,
   fresh |-> {}]

(***************************************************************************)
(* The viewport on its own: every handler of ViewportState, called in any  *)
(* order, and tick called once per frame.                                  *)
(***************************************************************************)
\* pointer positions of a drag: where it starts, where it moves to
DragStartPts == {Point(400, 300)}
DragMovePts == {Point(401, 301), Point(400, 298)}
\* wheel positions and pinch centres
FocusPts == {Point(600, 150)}
\* distances between the two touches of a pinch: at its start, at a move
PinchStartDistances == {100}
PinchMoveDistances == {10, 105, 1000}
\* zoom values the slider's setZoom is called with
SliderZooms == {1500, 3020, 25000}
\* the size before and after the canvas has called setSize
ViewportSizes == {[width |-> 0, height |-> 0], [width |-> 800, height |-> 600]}
\* values of Math.floor(Math.random() * totalConcepts)
ShuffleIndices(config) == 0..(config.totalConcepts - 1)

\* |x| + |y|, which is at least the length of the velocity
SpeedL1(vel) == Abs(vel.x) + Abs(vel.y)

RECURSIVE DecayFrames(_)
\* frames a speed takes to fall to the stop threshold when each frame multiplies
\* it by FRICTION
DecayFrames(speed) ==
  IF speed <= VELOCITY_STOP_THRESHOLD THEN 0
  ELSE 1 + DecayFrames((speed * FRICTION + 99) \div 100)

VpAuxInit == [gestures |-> 0, moves |-> 0, holdFrames |-> 0, momentumTicks |-> 0, startSpeed |-> 0]

VpInit ==
  /\ \E s \in ViewportSizes : vp = setSize(ViewportInit(gridConfig), s.width, s.height)
  /\ vpAux = VpAuxInit
  /\ tl = TextureLoaderInit
  /\ tlAux = TlAuxInit
  /\ pool = PoolInit
  /\ poolAux = PoolAuxInit
  /\ cv = CanvasInit
  /\ peer = PeerInit

\* an input handler has run and left the refs as v
VpAfterInput(v, gestures, moves) ==
  /\ vp' = v
  /\ vpAux' = [gestures |-> gestures, moves |-> moves,
               holdFrames |-> IF v.isDragging \/ v.isPinching THEN vpAux.holdFrames ELSE 0,
               momentumTicks |-> 0, startSpeed |-> SpeedL1(v.velocity)]

\* a handler call that is a gesture of its own
VpGesture(v) ==
  /\ vpAux.gestures < MaxGestures
  /\ VpAfterInput(v, vpAux.gestures + 1, 0)

\* a move of the drag or pinch in progress
VpMove(v) ==
  /\ vpAux.moves < MaxMoves
  /\ VpAfterInput(v, vpAux.gestures, vpAux.moves + 1)

VpDragStart == \E p \in DragStartPts : VpGesture(onDragStart(vp, p.x, p.y))
VpDragMove == \E p \in DragMovePts :
  IF vp.isDragging THEN VpMove(onDragMove(vp, p.x, p.y)) ELSE VpGesture(onDragMove(vp, p.x, p.y))
VpDragEnd ==
  IF vp.isDragging THEN VpAfterInput(onDragEnd(vp), vpAux.gestures, 0) ELSE VpGesture(onDragEnd(vp))
VpWheel == \E deltaY \in {-100, 100}, p \in FocusPts : VpGesture(onWheel(vp, deltaY, p.x, p.y))
VpPinchStart == \E d \in PinchStartDistances, p \in FocusPts : VpGesture(onPinchStart(vp, d, p.x, p.y))
VpPinchMove == \E d \in PinchMoveDistances, p \in FocusPts :
  IF vp.isPinching THEN VpMove(onPinchMove(vp, d, p.x, p.y)) ELSE VpGesture(onPinchMove(vp, d, p.x, p.y))
VpPinchEnd ==
  IF vp.isPinching THEN VpAfterInput(onPinchEnd(vp), vpAux.gestures, 0) ELSE VpGesture(onPinchEnd(vp))
VpSetZoom == \E z \in SliderZooms : VpGesture(setZoom(vp, z))
VpShuffle == \E i \in ShuffleIndices(gridConfig) : VpGesture(shuffle(vp, gridConfig, i))
VpRecenter == VpGesture(recenter(vp, gridConfig))

\* one frame: FrameMs later, tick() runs
VpTick ==
  LET r == ViewportTick(Elapse(vp, FrameMs))
      held == vp.isDragging \/ vp.isPinching
  IN /\ held => vpAux.holdFrames < MaxHoldFrames
     /\ vp' = r.v
     /\ vpAux' = [vpAux EXCEPT !.holdFrames = IF held THEN @ + 1 ELSE @,
                               !.momentumTicks = IF Speed2(vp.velocity) > 0 THEN @ + 1 ELSE @]

VpStep ==
  \/ VpDragStart \/ VpDragMove \/ VpDragEnd \/ VpWheel
  \/ VpPinchStart \/ VpPinchMove \/ VpPinchEnd \/ VpSetZoom
  \/ VpShuffle \/ VpRecenter \/ VpTick

VpNext == VpStep /\ UNCHANGED <<tl, tlAux, pool, poolAux, cv, peer>>

vars == <<vp, vpAux, tl, tlAux, pool, poolAux, cv, peer>>

SpecViewport == VpInit /\ [][VpNext]_vars

\* the viewport with a scripted animation, a wheel event or a press arriving
\* on top of the gestures above: one more call of shuffle, recenter, onWheel or
\* onDragStart, whatever the viewport is doing
AnimateNext ==
  /\ \/ VpStep
     \/ /\ vpAux.gestures = MaxGestures
        /\ \/ \E i \in ShuffleIndices(gridConfig) :
                VpAfterInput(shuffle(vp, gridConfig, i), vpAux.gestures + 1, 0)
           \/ VpAfterInput(recenter(vp, gridConfig), vpAux.gestures + 1, 0)
           \/ \E deltaY \in {-100, 100}, p \in FocusPts :
                VpAfterInput(onWheel(vp, deltaY, p.x, p.y), vpAux.gestures + 1, 0)
           \/ \E p \in DragStartPts :
                VpAfterInput(onDragStart(vp, p.x, p.y), vpAux.gestures + 1, 0)
  /\ UNCHANGED <<tl, tlAux, pool, poolAux, cv, peer>>

SpecAnimate == VpInit /\ [][AnimateNext]_vars

\* distances between two touches that may be at the same point
PinchDistances == {0, 50, 100, 150, 400}

\* pinches alone, the degenerate ones included
PinchNext ==
  /\ \/ \E d \in PinchDistances, p \in FocusPts \cup DragStartPts :
          VpGesture(onPinchStart(vp, d, p.x, p.y))
     \/ \E d \in PinchDistances, p \in FocusPts \cup DragStartPts :
          vp.isPinching /\ VpMove(onPinchMove(vp, d, p.x, p.y))
     \/ vp.isPinching /\ VpAfterInput(onPinchEnd(vp), vpAux.gestures, 0)
  /\ UNCHANGED <<tl, tlAux, pool, poolAux, cv, peer>>

SpecPinch == VpInit /\ [][PinchNext]_vars

(***************************************************************************)
(* Claims about the viewport                                               *)
(***************************************************************************)
\* C1: in every state reachable through the handlers and tick, the zoom and the
\* smooth-zoom target both lie in [MIN_ZOOM, MAX_ZOOM].
C1_ZoomInRange ==
  /\ MIN_ZOOM <= vp.zoom /\ vp.zoom <= MAX_ZOOM
  /\ MIN_ZOOM <= vp.targetZoom /\ vp.targetZoom <= MAX_ZOOM

\* a pinch move asked for more than MAX_ZOOM and the zoom was clamped to it
C1_Witness == vp.isPinching /\ vpAux.moves > 0 /\ vp.zoom = MAX_ZOOM

\* a step that is a tick: no handler was called
VpTickStep ==
  /\ vpAux'.gestures = vpAux.gestures
  /\ vpAux'.moves = vpAux.moves
  /\ vp'.isDragging = vp.isDragging
  /\ vp'.isPinching = vp.isPinching

\* C9: on every tick the speed strictly decreases while it is above
\* VELOCITY_STOP_THRESHOLD and the velocity is exactly (0,0) after a tick that
\* began at or below it (so it stays (0,0)); and the ticks a momentum runs for
\* without further input are bounded by the frames the friction needs to bring
\* the initial speed down to the threshold, plus the one that snaps to zero.
C9_MomentumDecays ==
  /\ [][VpTickStep =>
          IF Speed2(vp.velocity) > VELOCITY_STOP_THRESHOLD * VELOCITY_STOP_THRESHOLD
          THEN Speed2(vp'.velocity) < Speed2(vp.velocity)
          ELSE vp'.velocity = Point(0, 0)]_vars
  /\ [](vpAux.momentumTicks <= DecayFrames(vpAux.startSpeed) + 1)

\* a momentum that onDragEnd started has run for several frames and has stopped
C9_Witness ==
  /\ vpAux.startSpeed > VELOCITY_STOP_THRESHOLD
  /\ vpAux.momentumTicks > 2
  /\ vp.velocity = Point(0, 0)

(***************************************************************************)
(* The texture loader on its own, as the rest of the repository calls it:  *)
(* requestLoad, getTexture, processQueue and clearQueue in any order, for  *)
(* any url, priority and size, and the loads it started settling at any    *)
(* time.  (Nothing in the repository calls markVisible or markOffscreen.)  *)
(***************************************************************************)
\* a function of the loader has run and left the refs as t
TlAfter(t, asked, settled, off, marks, fresh) ==
  /\ tl' = t
  /\ tlAux' = [asked |-> [u \in Urls |-> IF QueueHas(t, u) THEN asked[u] ELSE {}],
               settled |-> settled, off |-> off, marks |-> marks, fresh |-> fresh]
  /\ UNCHANGED <<vp, vpAux, pool, poolAux, cv, peer>>

\* a requestLoad that queues the url starts a new load of it
TlRequest(priorities, sizes) ==
  \E url \in Urls, priority \in priorities, size \in sizes :
    LET t == requestLoad(tl, url, priority, size)
    IN TlAfter(t, [tlAux.asked EXCEPT ![url] = @ \cup {priority}], Null,
               IF QueueHas(t, url) /\ ~QueueHas(tl, url)
               THEN [tlAux.off EXCEPT ![url] = "none"] ELSE tlAux.off,
               tlAux.marks, tlAux.fresh \cup {url})

TlRequestLoad == TlRequest(Priorities, ImageSizes)

TlProcessQueue == TlAfter(processQueue(tl), tlAux.asked, Null, tlAux.off, tlAux.marks, {})

\* Assets.load resolves
TlLoadResolved ==
  \E load \in tl.pending :
    TlAfter(loadTextureResolved(tl, load.url, load.size), tlAux.asked,
            Some([url |-> load.url, size |-> load.size, ok |-> TRUE,
                  activeBefore |-> tl.activeLoads[load.size],
                  sizeBefore |-> Len(tl.textureCache) + 1,
                  evictable |-> Cardinality((SeqUrls(tl.textureCache) \cup {load.url})
                                              \ tl.visibleUrls)]),
            tlAux.off, tlAux.marks, tlAux.fresh)

\* Assets.load rejects
TlLoadRejected ==
  \E load \in tl.pending :
    TlAfter(loadTextureRejected(tl, load.url, load.size), tlAux.asked,
            Some([url |-> load.url, size |-> load.size, ok |-> FALSE,
                  activeBefore |-> tl.activeLoads[load.size],
                  sizeBefore |-> Len(tl.textureCache),
                  evictable |-> 0]),
            tlAux.off, tlAux.marks, tlAux.fresh)

TlGetTexture ==
  \E url \in Urls : TlAfter(getTexture(tl, url), tlAux.asked, Null, tlAux.off, tlAux.marks, tlAux.fresh)

TlClearQueue == TlAfter(clearQueue(tl), tlAux.asked, Null, tlAux.off, tlAux.marks, tlAux.fresh)

TlInit ==
  /\ vp = ViewportInit(gridConfig)
  /\ vpAux = VpAuxInit
  /\ tl = TextureLoaderInit
  /\ tlAux = TlAuxInit
  /\ pool = PoolInit
  /\ poolAux = PoolAuxInit
  /\ cv = CanvasInit
  /\ peer = PeerInit

TlNext ==
  \/ TlRequestLoad \/ TlProcessQueue \/ TlLoadResolved \/ TlLoadRejected
  \/ TlGetTexture \/ TlClearQueue

SpecLoader == TlInit /\ [][TlNext]_vars

(***************************************************************************)
(* The texture loader with its visibility functions: markVisible and       *)
(* markOffscreen called for any url, the timers of markOffscreen firing at *)
(* any time, and loads of one priority in the medium tier.                 *)
(***************************************************************************)
TdRequestLoad == TlRequest({1}, {"medium"})

TdMarkVisible ==
  \E url \in Urls :
    /\ tlAux.marks < MaxMarks
    /\ TlAfter(markVisible(tl, url), tlAux.asked, Null,
               [tlAux.off EXCEPT ![url] = "none"], tlAux.marks + 1, tlAux.fresh)

TdMarkOffscreen ==
  \E url \in Urls :
    /\ tlAux.marks < MaxMarks
    /\ TlAfter(markOffscreen(tl, url), tlAux.asked, Null,
               [tlAux.off EXCEPT ![url] =
                  IF CacheHas(tl, url) THEN "cached"
                  ELSE IF QueueHas(tl, url) \/ url \in tl.loadingSet THEN "loading"
                  ELSE "none"],
               tlAux.marks + 1, tlAux.fresh)

\* OFFSCREEN_DISPOSE_DELAY after markOffscreen set it, a timer fires
TdTimerFired ==
  \E url \in tl.offscreenTimers :
    TlAfter(offscreenTimerFired(tl, url), tlAux.asked, Null, tlAux.off, tlAux.marks, tlAux.fresh)

TdNext ==
  \/ TdRequestLoad \/ TlProcessQueue \/ TlLoadResolved \/ TlLoadRejected
  \/ TlGetTexture \/ TdMarkVisible \/ TdMarkOffscreen \/ TdTimerFired

SpecDisposal == TlInit /\ [][TdNext]_vars

(***************************************************************************)
(* Claims about the texture loader                                         *)
(***************************************************************************)
InFlight(size) == Cardinality({load \in tl.pending : load.size = size})

\* C2: in every reachable state of the loader the in-flight thumbnail loads
\* are at most THUMB_CONCURRENT_LOADS and the in-flight medium loads at most
\* MEDIUM_CONCURRENT_LOADS, both as counted by activeLoads and as the loads
\* that have not settled, and neither counter is negative.
C2_LoadsWithinCaps ==
  /\ 0 <= tl.activeLoads.thumb /\ tl.activeLoads.thumb <= THUMB_CONCURRENT_LOADS
  /\ 0 <= tl.activeLoads.medium /\ tl.activeLoads.medium <= MEDIUM_CONCURRENT_LOADS
  /\ InFlight("thumb") <= THUMB_CONCURRENT_LOADS
  /\ InFlight("medium") <= MEDIUM_CONCURRENT_LOADS

\* every thumbnail slot is taken and another thumbnail waits in the queue
C2_Witness ==
  /\ tl.activeLoads.thumb = THUMB_CONCURRENT_LOADS
  /\ InFlight("thumb") = THUMB_CONCURRENT_LOADS
  /\ \E i \in 1..Len(tl.loadQueueMap) : tl.loadQueueMap[i].size = "thumb"

MinOf(S) == CHOOSE m \in S : \A x \in S : m <= x

\* C3: a url that has been requested several times since it was queued and
\* has not been dispatched has exactly one queue entry, and the priority of
\* that entry is the least of the priorities it was requested with.
C3_OneEntryMinPriority ==
  \A u \in Urls :
    QueueHas(tl, u) =>
      /\ Cardinality({i \in 1..Len(tl.loadQueueMap) : tl.loadQueueMap[i].url = u}) = 1
      /\ QueueEntry(tl, u).priority = MinOf(tlAux.asked[u])

\* a queued url has been requested with two different priorities
C3_Witness ==
  \E u \in Urls : QueueHas(tl, u) /\ Cardinality(tlAux.asked[u]) = 2

\* n calls of processQueue in a row
RECURSIVE ProcessFrames(_, _)
ProcessFrames(t, n) == IF n = 0 THEN t ELSE ProcessFrames(processQueue(t), n - 1)

\* C7: right after a dispatched load has failed, the counter of its tier is
\* one less than before, the url is not in the loading set and not in the
\* cache, every requestLoad for it puts it in the queue, and requested ahead
\* of the other queued urls it is dispatched again by the next processing
\* of the queue.
C7_FailedLoadReleased ==
  (tlAux.settled # Null /\ ~tlAux.settled[1].ok) =>
    LET failure == tlAux.settled[1]
        first == requestLoad(tl, failure.url, 0, failure.size)
    IN /\ tl.activeLoads[failure.size] = failure.activeBefore - 1
       /\ failure.url \notin tl.loadingSet
       /\ [url |-> failure.url, size |-> failure.size] \notin tl.pending
       /\ ~CacheHas(tl, failure.url)
       /\ Len(tl.textureCache) = failure.sizeBefore
       /\ \A priority \in Priorities, size \in ImageSizes :
            QueueHas(requestLoad(tl, failure.url, priority, size), failure.url)
       /\ failure.url \in ProcessFrames(first, QUEUE_PERIOD).loadingSet

\* a load has just failed while another url waits in the queue
C7_Witness ==
  /\ tlAux.settled # Null
  /\ ~tlAux.settled[1].ok
  /\ Len(tl.loadQueueMap) > 0

\* the load that resolved in the last step pushed the cache above
\* MAX_TEXTURE_COUNT, so that evictIfNeeded did not return at once
EvictionRan ==
  /\ tlAux.settled # Null
  /\ tlAux.settled[1].ok
  /\ tlAux.settled[1].sizeBefore > MAX_TEXTURE_COUNT

C5_VisibleNeverDestroyed ==
  [][\A u \in Urls : (CacheHas(tl, u) /\ u \in tl.visibleUrls) => CacheHas(tl', u)]_vars

\* an eviction has destroyed entries and left the entry of a visible key
C5_Witness ==
  /\ EvictionRan
  /\ Len(tl.textureCache) < tlAux.settled[1].sizeBefore
  /\ \E u \in tl.visibleUrls : CacheHas(tl, u) /\ u # tlAux.settled[1].url

\* C8 as stated: a url for which markOffscreen was called, whatever its load
\* state then, and markVisible was not called since, is not in the cache once
\* no timer and no load of it is outstanding.
C8_AnyStateDisposed ==
  \A u \in Urls :
    (/\ tlAux.off[u] # "none"
     /\ u \notin tl.offscreenTimers
     /\ u \notin tl.loadingSet
     /\ ~QueueHas(tl, u)) => ~CacheHas(tl, u)

\* C8: a url that was in the cache when markOffscreen was called for it, and
\* for which neither markVisible nor a new load was called since, is not in
\* the cache once its disposal timer has fired.
C8_CachedKeyDisposed ==
  \A u \in Urls :
    (tlAux.off[u] = "cached" /\ u \notin tl.offscreenTimers) => ~CacheHas(tl, u)

\* the timer of a url that was cached when it went off-screen has fired
C8_Witness ==
  \E u \in Urls :
    tlAux.off[u] = "cached" /\ u \notin tl.offscreenTimers /\ ~CacheHas(tl, u)

(***************************************************************************)
(* The sprite pool and the loader: update called with any viewport and     *)
(* filter, and loads settling between the calls.                           *)
(***************************************************************************)
\* viewports update is called with: below and above LOAD_MID_RES, and panned
\* by one cell
PoolViewports ==
  {[pan |-> getGridCenter(gridConfig), zoom |-> z, width |-> 40, height |-> 40] :
     z \in {DEFAULT_ZOOM, ZU}}
  \cup {[pan |-> [x |-> getGridCenter(gridConfig).x + CELL_SIZE * PX,
                  y |-> getGridCenter(gridConfig).y],
         zoom |-> DEFAULT_ZOOM, width |-> 40, height |-> 40]}
\* filteredIndices and isClusterMode of the canvas: no filter, a category filter
PoolFilters ==
  {[indices |-> 0..(NumConcepts - 1), cluster |-> FALSE],
   [indices |-> {0}, cluster |-> FALSE]}

\* update is called with one of the viewports and filters; frames counts the
\* calls in cluster mode that returned true since the arguments last changed
\* or a load last settled
UpdateWith(viewports, filters, maxChanges, items) ==
  \E viewport \in viewports, f \in filters :
    LET config == computeGridConfig(Len(items))
        r == update(pool, tl, getVisibleCards(viewport, config, items), viewport,
                    f.indices, items, f.cluster, config)
        changed == poolAux.args # Some([viewport |-> viewport, filter |-> f])
        needed == cardsToRender(r.pool.clusterLayout,
                                getVisibleCards(viewport, config, items),
                                f.indices, items, f.cluster, config)
    IN /\ changed => poolAux.changes < maxChanges
       /\ pool' = r.pool
       /\ tl' = r.loader
       /\ poolAux' = [args |-> Some([viewport |-> viewport, filter |-> f]),
                      changes |-> IF changed THEN poolAux.changes + 1 ELSE poolAux.changes,
                      returned |-> r.isAnimating,
                      neededKeys |-> {needed[i].key : i \in 1..Len(needed)},
                      frames |-> IF ~f.cluster THEN 0
                                 ELSE IF changed THEN 1
                                 ELSE IF r.isAnimating
                                      THEN Min(poolAux.frames + 1, MaxConvergeFrames + 1)
                                      ELSE poolAux.frames]
       /\ UNCHANGED <<vp, vpAux, tlAux, cv, peer>>

LoadResolved ==
  \E load \in tl.pending :
    /\ tl' = loadTextureResolved(tl, load.url, load.size)
    /\ poolAux' = [poolAux EXCEPT !.frames = 0]
    /\ UNCHANGED <<vp, vpAux, tlAux, pool, cv, peer>>

LoadRejected ==
  \E load \in tl.pending :
    /\ tl' = loadTextureRejected(tl, load.url, load.size)
    /\ poolAux' = [poolAux EXCEPT !.frames = 0]
    /\ UNCHANGED <<vp, vpAux, tlAux, pool, cv, peer>>

PoolNext ==
  \/ UpdateWith(PoolViewports, PoolFilters, MaxPoolChanges, concepts)
  \/ LoadResolved
  \/ LoadRejected

SpecPool == TlInit /\ [][PoolNext]_vars

(***************************************************************************)
(* Claims about the sprite pool                                            *)
(***************************************************************************)
\* the node's sprite is visible and holds the texture of url
Displays(card, url) ==
  /\ card.imageSprite # Null
  /\ card.imageSprite[1].visible
  /\ card.imageSprite[1].texture = url

\* C6: once a pooled node has displayed the mid-resolution texture of its item,
\* in every later update in which the node stays active and the mid texture is
\* still in the cache, the node does not display the thumbnail, whatever the
\* zoom does in between.
C6_NeverDowngrade ==
  [][\A i \in 1..Len(pool.activeCards) :
       LET card == pool.activeCards[i]
           concept == concepts[(card.conceptIndex % Len(concepts)) + 1]
           thumbUrl == getThumbUrl(concept)
           midUrl == getMidUrl(concept)
       IN (/\ thumbUrl # midUrl
           /\ card.hasMid
           /\ Displays(card, midUrl)
           /\ HasCard(pool', card.key)
           /\ CacheHas(tl, midUrl) /\ CacheHas(tl', midUrl))
          => ~Displays(pool'.activeCards[CardIndex(pool', card.key)], thumbUrl)]_vars

\* C12: a node whose key the update does not need is never moved to the free
\* list while its opacity is above 0.01: the update fades it toward zero and
\* returns true; once its opacity is at most 0.01 the update releases it.
C12_FadeThenRelease ==
  [][(pool' # pool \/ poolAux' # poolAux) =>
       \A i \in 1..Len(pool.activeCards) :
         LET card == pool.activeCards[i]
         IN card.key \notin poolAux'.neededKeys =>
              IF 100 * card.currentAlpha > AU
              THEN /\ HasCard(pool', card.key)
                   /\ pool'.activeCards[CardIndex(pool', card.key)].currentAlpha < card.currentAlpha
                   /\ pool'.activeCards[CardIndex(pool', card.key)].targetAlpha = 0
                   /\ poolAux'.returned
              ELSE ~HasCard(pool', card.key)]_vars

\* a node that the release loop has faded out is in the free list
C12_Witness ==
  \E i \in 1..Len(pool.recyclePool) :
    /\ pool.recyclePool[i].targetAlpha = 0
    /\ pool.recyclePool[i].targetScale = MulDiv(AU, 8, 10)
    /\ pool.recyclePool[i].currentScale < AU

(***************************************************************************)
(* The sprite pool in cluster mode: update called again and again with a   *)
(* viewport and an eligible set, which change now and then, and loads      *)
(* settling between the calls.                                             *)
(***************************************************************************)
\* a collection of four columns, whose last column the viewport does not show
ClusterConcepts == [i \in 1..(2 * NumConcepts) |-> concepts[((i - 1) % NumConcepts) + 1]]

ClusterNext ==
  \/ /\ UpdateWith({[pan |-> [x |-> 400 * PX, y |-> getGridCenter(computeGridConfig(Len(ClusterConcepts))).y],
                     zoom |-> DEFAULT_ZOOM, width |-> 40, height |-> 40]},
                   {[indices |-> {0}, cluster |-> TRUE], [indices |-> {1, 3}, cluster |-> TRUE],
                    [indices |-> {0, 2}, cluster |-> TRUE]},
                   MaxClusterChanges, ClusterConcepts)
     \* the eligible set is replaced between two animations
     /\ (poolAux.args # Null /\ poolAux.returned) => poolAux'.args = poolAux.args
  \* loads settle between two animations
  \/ ~poolAux.returned /\ LoadResolved
  \/ ~poolAux.returned /\ LoadRejected

SpecCluster == TlInit /\ [][ClusterNext]_vars

\* C13: with the viewport, the visible set, the eligible set and
\* cluster mode held fixed, repeated update calls return false after a bounded
\* number of frames, and then every node of an eligible item sits exactly at
\* the item's cluster-layout position with opacity 1 and every node of a
\* non-eligible item has opacity 0.
C13_ClusterConverges ==
  (poolAux.args # Null /\ poolAux.args[1].filter.cluster) =>
    /\ poolAux.returned => poolAux.frames <= MaxConvergeFrames
    /\ ~poolAux.returned =>
         \A i \in 1..Len(pool.activeCards) :
           LET card == pool.activeCards[i]
               conceptIndex == card.conceptIndex % Len(ClusterConcepts)
           IN IF conceptIndex \in poolAux.args[1].filter.indices
              THEN /\ conceptIndex \in DOMAIN pool.clusterLayout
                   /\ card.currentX = pool.clusterLayout[conceptIndex].x
                   /\ card.currentY = pool.clusterLayout[conceptIndex].y
                   /\ card.currentAlpha = AU
              ELSE card.currentAlpha = 0

(***************************************************************************)
(* The canvas: PixiCanvas with its viewport, loader and pool.  The events  *)
(* arrive in any order, each handler runs to its end, a frame callback     *)
(* runs when one has been asked for, and loads settle at any time.         *)
(***************************************************************************)
\* pointer positions, wheel positions and pinch centres, within the canvas
CanvasPts == {Point(20, 20), Point(22, 15)}
\* app.screen before and after a resize
CanvasSizes == {[width |-> 40, height |-> 40], [width |-> 60, height |-> 40]}
\* zoom values the slider's setZoom is called with
CanvasSliderZooms == {1500, 6000}

\* the canvas, the pool and the loader are left as c, p and t
CvAfter(c, p, t) ==
  /\ cv' = c
  /\ pool' = p
  /\ tl' = t
  /\ UNCHANGED <<tlAux, poolAux, peer>>

\* app.init() has resolved: the rest of initApp
CvInitApp ==
  /\ ~cv.app
  /\ LET sized == setSize(vp, cv.screen.width, cv.screen.height)
         r == render([cv EXCEPT !.app = TRUE, !.lastViewportHash = Null], sized, pool, tl, TRUE)
     IN /\ vp' = sized
        /\ UNCHANGED vpAux
        /\ CvAfter([r.canvas EXCEPT !.startTimer = TRUE], r.pool, r.loader)

\* the callback initApp gave to setTimeout
CvStartTimer ==
  /\ cv.startTimer
  /\ CvAfter([(IF ~cv.isRunning /\ cv.app THEN ensureRunning(cv) ELSE cv)
                EXCEPT !.startTimer = FALSE], pool, tl)
  /\ UNCHANGED <<vp, vpAux>>

\* one frame: FrameMs later, the callback asked for runs
CvTick ==
  LET r == tick(cv, Elapse(vp, FrameMs), pool, tl)
      held == vp.isDragging \/ vp.isPinching
  IN /\ cv.raf > 0
     /\ held => vpAux.holdFrames < MaxHoldFrames
     /\ vp' = r.v
     /\ vpAux' = [vpAux EXCEPT !.holdFrames = IF held THEN @ + 1 ELSE @,
                               !.momentumTicks = IF Speed2(vp.velocity) > 0 THEN @ + 1 ELSE @]
     /\ CvAfter(r.canvas, r.pool, r.loader)

CvPointerDown ==
  \E p \in CanvasPts :
    /\ VpGesture(onDragStart(vp, p.x, p.y))
    /\ CvAfter(ensureRunning([cv EXCEPT !.isDragging = TRUE, !.hasDragged = FALSE]), pool, tl)

CvPointerMove ==
  \E p \in CanvasPts :
    /\ cv.app
    /\ IF cv.isDragging
       THEN /\ VpMove(onDragMove(vp, p.x, p.y))
            /\ CvAfter([cv EXCEPT !.hasDragged = TRUE], pool, tl)
       ELSE /\ VpGesture(vp)
            /\ CvAfter([cv EXCEPT !.hoveredIndex =
                          hitTestCard(p.x, p.y, getViewport(vp), gridConfig, concepts)],
                       pool, tl)

\* pointerup and pointerleave
CvPointerUp ==
  \E p \in CanvasPts :
    /\ cv.isDragging
    /\ VpAfterInput(onDragEnd(vp), vpAux.gestures, 0)
    /\ CvAfter([cv EXCEPT !.isDragging = FALSE,
                          !.clicked = IF cv.hasDragged THEN @
                                      ELSE hitTestCard(p.x, p.y, getViewport(onDragEnd(vp)),
                                                       gridConfig, concepts)],
               pool, tl)

CvWheel ==
  \E deltaY \in {-100, 100}, p \in CanvasPts :
    /\ VpGesture(onWheel(vp, deltaY, p.x, p.y))
    /\ CvAfter(ensureRunning(cv), pool, tl)

\* touchstart with two touches
CvTouchStart ==
  \E d \in PinchStartDistances, p \in CanvasPts :
    /\ VpGesture(onPinchStart(vp, d, p.x, p.y))
    /\ CvAfter(ensureRunning(cv), pool, tl)

\* touchmove with two touches
CvTouchMove ==
  \E d \in PinchMoveDistances, p \in CanvasPts :
    /\ IF vp.isPinching THEN VpMove(onPinchMove(vp, d, p.x, p.y))
                        ELSE VpGesture(onPinchMove(vp, d, p.x, p.y))
    /\ CvAfter(cv, pool, tl)

\* touchend with fewer than two touches left
CvTouchEnd ==
  /\ IF vp.isPinching THEN VpAfterInput(onPinchEnd(vp), vpAux.gestures, 0)
                      ELSE VpGesture(onPinchEnd(vp))
  /\ CvAfter(cv, pool, tl)

\* the methods of the handle, called by the parent: the slider and the buttons
CvSetZoom == \E z \in CanvasSliderZooms : VpGesture(setZoom(vp, z)) /\ CvAfter(cv, pool, tl)
CvShuffle ==
  \E i \in ShuffleIndices(gridConfig) : VpGesture(shuffle(vp, gridConfig, i)) /\ CvAfter(cv, pool, tl)
CvRecenter == VpGesture(recenter(vp, gridConfig)) /\ CvAfter(cv, pool, tl)

\* handleResize, after app.screen has taken the new size
CvResize ==
  \E s \in CanvasSizes :
    /\ cv.app
    /\ LET sized == setSize(vp, s.width, s.height)
           r == render([cv EXCEPT !.screen = s, !.lastViewportHash = Null], sized, pool, tl, TRUE)
       IN VpGesture(sized) /\ CvAfter(r.canvas, r.pool, r.loader)

\* the parent passes other filteredIndices: the effect that depends on them
CvFilterChange ==
  \E f \in PoolFilters :
    /\ f.indices # cv.filteredIndices \/ f.cluster # cv.isClusterMode
    /\ VpGesture(vp)
    /\ LET c == [cv EXCEPT !.filteredIndices = f.indices, !.isClusterMode = f.cluster,
                           !.lastViewportHash = Null]
           r == render(c, vp, pool, tl, TRUE)
       IN IF cv.app THEN CvAfter(ensureRunning(r.canvas), r.pool, r.loader)
          ELSE CvAfter(c, pool, tl)

CvNext ==
  \/ CvInitApp \/ CvStartTimer \/ CvTick
  \/ CvPointerDown \/ CvPointerMove \/ CvPointerUp \/ CvWheel
  \/ CvTouchStart \/ CvTouchMove \/ CvTouchEnd
  \/ CvSetZoom \/ CvShuffle \/ CvRecenter \/ CvResize \/ CvFilterChange
  \/ LoadResolved \/ LoadRejected

SpecCanvas == TlInit /\ [][CvNext]_vars

(***************************************************************************)
(* Claims about the frame loop                                             *)
(***************************************************************************)
\* C10: whenever the frame loop is not scheduled (isRunning is false) on a
\* mounted canvas (initApp has run and its start-up timer has fired), no
\* component has pending work: no scripted animation, the
\* zoom at the smooth-zoom target, no momentum, no node converging, no queued
\* and no in-flight load; after any sequence of events.
C10_StoppedLoopHasNoWork ==
  (cv.app /\ ~cv.startTimer /\ ~cv.isRunning) =>
    /\ vp.animation = Null
    /\ Abs(vp.targetZoom - vp.zoom) <= ZOOM_EPSILON
    /\ Speed2(vp.velocity) <= VELOCITY_STOP_THRESHOLD * VELOCITY_STOP_THRESHOLD
    /\ \A i \in 1..Len(pool.activeCards) : ~Converging(pool.activeCards[i])
    /\ ~hasPendingLoads(tl)

(***************************************************************************)
(* The canvas with its scheduling: the browser runs every frame callback   *)
(* that has been asked for and every timer, and every load that has been   *)
(* dispatched settles.                                                     *)
(***************************************************************************)
\* mounting, one wheel or filter input, frames and loads
LoopNext ==
  \/ CvInitApp \/ CvStartTimer \/ CvTick \/ CvWheel \/ CvFilterChange
  \/ LoadResolved \/ LoadRejected

\* the guard of CvTick: a frame callback has been asked for
CvTickEnabled ==
  /\ cv.raf > 0
  /\ (vp.isDragging \/ vp.isPinching) => vpAux.holdFrames < MaxHoldFrames

\* weak fairness of the timer and of the settling of loads, and weak fairness
\* of CvTick written with its guard: a callback that stays asked for runs
SpecCanvasFair ==
  /\ TlInit /\ [][LoopNext]_vars
  /\ WF_vars(CvStartTimer)
  /\ WF_vars(LoadResolved \/ LoadRejected)
  /\ ([]<>~CvTickEnabled \/ []<><<CvTick>>_vars)

\* C11: from every reachable state, if no further input or filter change
\* arrives and every dispatched load settles, the frame loop eventually stops
\* scheduling itself.  Stated for the states in which no drag or pinch is
\* being held: again and again the loop is stopped or a gesture is held.
C11_LoopStops ==
  []<>(~cv.isRunning \/ cv.isDragging \/ vp.isDragging \/ vp.isPinching)

(***************************************************************************)
(* Claims about the visible cards and the hit test                         *)
(***************************************************************************)
\* the index hitTestCard finds at the pixel that holds the centre of a card
HitAtCentre(card, viewport) ==
  hitTestCard((card.screenX + (card.screenSize \div 2)) \div PX,
              (card.screenY + (card.screenSize \div 2)) \div PX,
              viewport, gridConfig, concepts)

\* C14: for every card instance getVisibleCards returns for the viewport, in
\* any tile and any grid cell, hitTestCard at the centre of the card's
\* rectangle returns the index of that instance.
C14_HitTestAtCentre ==
  LET viewport == getViewport(vp)
      cards == getVisibleCards(viewport, gridConfig, concepts)
  IN \A i \in 1..Len(cards) : HitAtCentre(cards[i], viewport) = Some(cards[i].index)

\* C15: a pinch that starts with distance zero leaves, after every onPinchMove,
\* a zoom that is a defined number in [MIN_ZOOM, MAX_ZOOM] and a defined pan.
C15_DegeneratePinchDefined ==
  (vp.isPinching /\ vp.pinchStartDistance = 0) =>
    /\ vp.zoom # NaN /\ MIN_ZOOM <= vp.zoom /\ vp.zoom <= MAX_ZOOM
    /\ vp.pan.x # NaN /\ vp.pan.y # NaN

(***************************************************************************)
(* Claims about the order and the cancellation of queued loads             *)
(***************************************************************************)
\* C16: in every processQueue call that dispatches loads, every key dispatched
\* has a priority value less than or equal to that of every key of the same
\* tier the call leaves in the queue.
C16_DispatchOrder ==
  [][\A load \in tl'.pending \ tl.pending :
       \A i \in 1..Len(tl'.loadQueueMap) :
         tl'.loadQueueMap[i].size = load.size =>
           /\ QueueHas(tl, load.url)
           /\ QueueEntry(tl, load.url).priority <= tl'.loadQueueMap[i].priority]_vars

\* processQueue has just dispatched a thumbnail and a thumbnail requested with
\* a worse priority only is in the queue
C16_Witness ==
  /\ tl.frameCount = 0
  /\ \E load \in tl.pending : load.size = "thumb"
  /\ \E i \in 1..Len(tl.loadQueueMap) :
       /\ tl.loadQueueMap[i].size = "thumb"
       /\ tl.loadQueueMap[i].priority = 2
  /\ tl.activeLoads["thumb"] < THUMB_CONCURRENT_LOADS

\* C17: a load that is queued and whose key is not requested again is never
\* dispatched by a later processQueue call: every load a processQueue call
\* dispatches has been requested since the processQueue call before it.
C17_UnrequestedNeverDispatched ==
  [][\A load \in tl'.pending \ tl.pending : load.url \in tlAux.fresh]_vars

(***************************************************************************)
(* Claims about the cluster layout and the keys of the pool                *)
(***************************************************************************)
\* C18: in cluster mode, after every update the cluster layout assigns a
\* position to exactly the eligible indices and distinct indices get distinct
\* positions, whatever set the eligible set has replaced.
C18_LayoutCoversEligible ==
  (poolAux.args # Null /\ poolAux.args[1].filter.cluster) =>
    /\ DOMAIN pool.clusterLayout = poolAux.args[1].filter.indices
    /\ \A i, j \in DOMAIN pool.clusterLayout :
         i # j => pool.clusterLayout[i] # pool.clusterLayout[j]

\* the instances the last update rendered, with their keys
Rendered ==
  LET items == ClusterConcepts
      config == computeGridConfig(Len(items))
      viewport == poolAux.args[1].viewport
      f == poolAux.args[1].filter
  IN cardsToRender(pool.clusterLayout, getVisibleCards(viewport, config, items),
                   f.indices, items, f.cluster, config)

\* C19: within one update no two distinct rendered instances share a key: the
\* keys of grid instances differ when index, tileX or tileY differ, the key
\* of a synthetic cluster instance equals no grid key, and the pool holds at
\* most one active node per key.
C19_KeysUnique ==
  /\ \A a, b \in (0..2) \X (-1..1) \X (-1..1) :
       a # b => getCardKey(a[1], a[2], a[3]) # getCardKey(b[1], b[2], b[3])
  /\ \A i, j \in 1..Len(pool.activeCards) :
       i # j => pool.activeCards[i].key # pool.activeCards[j].key
  \* as many keys as instances
  /\ poolAux.args # Null =>
       /\ Cardinality(poolAux.neededKeys) = Len(Rendered)
       /\ \A key \in poolAux.neededKeys : HasCard(pool, key)

\* the last update rendered a synthetic cluster instance, which has a node,
\* and two grid instances of one item in different tiles
C19_Witness ==
  /\ poolAux.args # Null
  /\ \E key \in poolAux.neededKeys : key[1] = -2 /\ HasCard(pool, key)
  /\ \E index \in 0..(Len(ClusterConcepts) - 1) :
       {getCardKey(index, 0, 0), getCardKey(index, 0, 1)} \subseteq poolAux.neededKeys

(***************************************************************************)
(* Claims about the zoom toward a point                                    *)
(***************************************************************************)
\* the world point under the focal point is the same before and after one
\* call of zoomTowardPoint, for pans, sizes, focal points and zooms in range
ZoomTowardPointKeepsFocus ==
  \A pan \in {Point(0, 0), Point(-12345, 38400)}, size \in ViewportSizes,
     focus \in FocusPts \cup DragStartPts,
     z1, z2 \in {MIN_ZOOM, DEFAULT_ZOOM, 3010, ZU + 7, MAX_ZOOM} :
    screenToWorld(focus.x, focus.y,
                  [pan |-> zoomTowardPoint(pan, z1, z2, focus.x, focus.y, size.width, size.height),
                   zoom |-> z2, width |-> size.width, height |-> size.height])
      = screenToWorld(focus.x, focus.y,
                      [pan |-> pan, zoom |-> z1, width |-> size.width, height |-> size.height])

\* C20: the pan zoomTowardPoint returns keeps the world point under the focal
\* point, and so a tick of a smooth zoom (the zoom changes toward an unchanged
\* target, with no pinch, no animation and no momentum) does not change the
\* world point under the focal point.
C20_FocalPointFixed ==
  [][/\ ZoomTowardPointKeepsFocus
     /\ (/\ vp.zoomFocus # Null
         /\ ~vp.isPinching
         /\ vp.animation = Null
         /\ vp.velocity = Point(0, 0)
         /\ vp'.targetZoom = vp.targetZoom
         /\ vp'.zoom # vp.zoom)
        => screenToWorld(vp.zoomFocus[1].x, vp.zoomFocus[1].y, getViewport(vp'))
             = screenToWorld(vp.zoomFocus[1].x, vp.zoomFocus[1].y, getViewport(vp))]_vars

(***************************************************************************)
(* Claims about scripted animations and drags                              *)
(***************************************************************************)
\* C21: from the call of shuffle or recenter until the scripted animation ends
\* or is cancelled, the momentum velocity is (0,0), whatever drag events are
\* interleaved with it: while an animation is set the velocity is zero, and the
\* tick that ends the animation leaves the pan at the animation's end pan.
C21_NoMomentumDuringAnimation ==
  /\ [](vp.animation # Null => vp.velocity = Point(0, 0))
  /\ [][(vp.animation # Null /\ vp'.animation = Null /\ VpTickStep)
          => vp'.pan = vp.animation[1].endPan]_vars

(***************************************************************************)
(* Claims about the end of the viewport's motion                           *)
(***************************************************************************)
\* what is left of the viewport's motion: the milliseconds the scripted
\* animation still runs, the distance of the zoom from its target and the
\* size of the velocity
TickRank(v) ==
  (IF v.animation = Null THEN 0 ELSE v.animation[1].duration - v.animation[1].elapsed)
    + Abs(v.targetZoom - v.zoom) + SpeedL1(v.velocity)

\* a tick called with no drag and no pinch in progress
FreeTick == VpTickStep /\ ~vp.isDragging /\ ~vp.isPinching

\* the value the tick of this step returns
TickReturns == ViewportTick(Elapse(vp, FrameMs)).animating

\* tick called once more on the state after this step clears the focal point
\* and returns false
NextTickClearsFocus ==
  /\ ViewportTick(vp').v.zoomFocus = Null
  /\ ~ViewportTick(vp').animating

\* C22 as stated: with no drag and no pinch in progress, every tick that
\* returns true brings the viewport nearer to rest (so repeated ticks
\* eventually return false), and after a tick that returns false there is no
\* scripted animation, the velocity is (0,0), the zoom equals the smooth-zoom
\* target exactly and the focal point is cleared.
C22_TicksSettle ==
  [][FreeTick =>
       IF TickReturns THEN TickRank(vp') < TickRank(vp)
       ELSE /\ vp'.animation = Null
            /\ vp'.velocity = Point(0, 0)
            /\ vp'.zoom = vp'.targetZoom
            /\ vp'.zoomFocus = Null]_vars

\* C22, amended: as above, but the focal point is cleared by the tick that
\* returns false only when no scripted animation was set at its start; the
\* tick that ends a scripted animation leaves a focal point as it is, and the
\* next tick clears it and returns false.
C22_TicksSettleFocusLater ==
  [][FreeTick =>
       IF TickReturns THEN TickRank(vp') < TickRank(vp)
       ELSE /\ vp'.animation = Null
            /\ vp'.velocity = Point(0, 0)
            /\ vp'.zoom = vp'.targetZoom
            /\ IF vp.animation = Null THEN vp'.zoomFocus = Null ELSE NextTickClearsFocus]_vars

\* a smooth zoom started by the wheel or the slider has reached its target and
\* the viewport is at rest
C22_Witness ==
  /\ vpAux.gestures > 0
  /\ vp.zoom # DEFAULT_ZOOM
  /\ vp.zoom = vp.targetZoom
  /\ vp.zoomFocus = Null
  /\ isIdle(vp)
  /\ ~ViewportTick(vp).animating

(***************************************************************************)
(* getVisibleCards on its own: viewports at any pan (tiles with negative   *)
(* coordinates included), zoom and size, and collections of 1 to           *)
(* MaxGridItems items.                                                     *)
(***************************************************************************)
MaxGridItems == 5
GridPans == {-100000, -76800, -25601, 0, 12800, 38400, 51199}
GridZooms == {MIN_ZOOM, DEFAULT_ZOOM, ZU, MAX_ZOOM}
GridSizes == {[width |-> 0, height |-> 0], [width |-> 40, height |-> 40], [width |-> 400, height |-> 300]}

\* a collection of n items that differ from one another
GridItems(n) == [i \in 1..n |-> [thumbnail_url |-> "a", mid_url |-> "b", id |-> i]]

GridInit ==
  /\ \E px \in GridPans, py \in GridPans, z \in GridZooms, s \in GridSizes :
       vp = [ViewportInit(gridConfig) EXCEPT !.pan = Point(px, py), !.zoom = z, !.targetZoom = z, !.size = s]
  /\ vpAux = VpAuxInit
  /\ tl = TextureLoaderInit
  /\ tlAux = TlAuxInit
  /\ pool = PoolInit
  /\ poolAux = PoolAuxInit
  /\ cv = CanvasInit
  /\ peer = PeerInit

\* render computes the visible cards of the viewport
GridNext ==
  /\ cv' = refreshVisibleCards(cv, getViewport(vp), FALSE)
  /\ cv' # cv
  /\ UNCHANGED <<vp, vpAux, tl, tlAux, pool, poolAux, peer>>

SpecGrid == GridInit /\ [][GridNext]_vars

\* <<tileX, tileY, index>> of every instance of a result
InstanceCells(cards) == {<<cards[k].tileX, cards[k].tileY, cards[k].index>> : k \in 1..Len(cards)}

\* every cell whose card rectangle meets the world rectangle of the viewport is
\* in the result, no cell is in it twice, and every instance is a cell of the
\* grid with the item of its index
VisibleCardsExact(viewport, config, items) ==
  LET cards == getVisibleCards(viewport, config, items)
      cells == InstanceCells(cards)
      halfViewW == MulDiv(viewport.width * PX, ZU, 2 * viewport.zoom)
      halfViewH == MulDiv(viewport.height * PX, ZU, 2 * viewport.zoom)
      left == viewport.pan.x - halfViewW
      right == viewport.pan.x + halfViewW
      top == viewport.pan.y - halfViewH
      bottom == viewport.pan.y + halfViewH
      tileWidth == config.tileWidth * PX
      tileHeight == config.tileHeight * PX
      cell == CELL_SIZE * PX
      card == CARD_SIZE * PX
  IN /\ \A tileX \in ((left - card) \div tileWidth)..(right \div tileWidth),
           tileY \in ((top - card) \div tileHeight)..(bottom \div tileHeight),
           col \in 0..(config.cols - 1), row \in 0..(config.rows - 1) :
          LET worldX == tileX * tileWidth + col * cell
              worldY == tileY * tileHeight + row * cell
          IN (/\ worldX <= right /\ worldX + card >= left
              /\ worldY <= bottom /\ worldY + card >= top)
             => <<tileX, tileY, row * config.cols + col>> \in cells
     /\ Cardinality(cells) = Len(cards)
     /\ \A k \in 1..Len(cards) :
          LET x == cards[k].worldX - cards[k].tileX * tileWidth
              y == cards[k].worldY - cards[k].tileY * tileHeight
          IN /\ x % cell = 0 /\ (x \div cell) \in 0..(config.cols - 1)
             /\ y % cell = 0 /\ (y \div cell) \in 0..(config.rows - 1)
             /\ cards[k].index = (y \div cell) * config.cols + (x \div cell)
             /\ cards[k].concept = items[(cards[k].index % Len(items)) + 1]

EvictConcepts ==
  << [thumbnail_url |-> "a", mid_url |-> "a"], [thumbnail_url |-> "b", mid_url |-> "b"],
     [thumbnail_url |-> "c", mid_url |-> "c"], [thumbnail_url |-> "a", mid_url |-> "a"] >>

EvictNext ==
  \/ UpdateWith({[pan |-> getGridCenter(computeGridConfig(Len(EvictConcepts))),
                  zoom |-> DEFAULT_ZOOM, width |-> 40, height |-> 40]},
                {[indices |-> 0..(Len(EvictConcepts) - 1), cluster |-> FALSE]},
                1, EvictConcepts)
  \/ LoadResolved
  \/ LoadRejected

SpecEvict == TlInit /\ [][EvictNext]_vars

\* C24: in the frame loop, a texture that an active, needed pooled node is
\* displaying is in the cache (it has not been destroyed by the capacity
\* eviction or by the off-screen disposal) for as long as the node displays it,
\* for any number of cards visible at the same time.
C24_DisplayedTextureKept ==
  \A i \in 1..Len(pool.activeCards), url \in Urls :
    (/\ pool.activeCards[i].key \in poolAux.neededKeys
     /\ Displays(pool.activeCards[i], url))
    => CacheHas(tl, url)

(***************************************************************************)
(* Claims about the loader's sets                                          *)
(***************************************************************************)
\* C25: between the operations of the texture loader, each key is in at most
\* one of the three sets queued, loading and cached, and the size of the
\* loading set equals the sum of the thumbnail and medium in-flight counters.
C25_SetsDisjoint ==
  /\ \A url \in Urls :
       /\ ~(QueueHas(tl, url) /\ url \in tl.loadingSet)
       /\ ~(QueueHas(tl, url) /\ CacheHas(tl, url))
       /\ ~(url \in tl.loadingSet /\ CacheHas(tl, url))
  /\ Cardinality(tl.loadingSet) = tl.activeLoads["thumb"] + tl.activeLoads["medium"]

\* one key is queued, another is being loaded and a third is cached
C25_Witness ==
  /\ Len(tl.loadQueueMap) = 1
  /\ Cardinality(tl.loadingSet) = 1
  /\ Len(tl.textureCache) = 1

(***************************************************************************)
(* Claims about the nodes of the pool                                      *)
(***************************************************************************)
\* the viewport pans by one cell and back: the arguments of update change up to
\* MaxRecycleChanges times, the first call included
MaxRecycleChanges == 3

\* the pool under a viewport that pans away and comes back, so that nodes are
\* released and acquired again
RecycleNext ==
  \/ UpdateWith({[pan |-> [x |-> getGridCenter(gridConfig).x + dx, y |-> getGridCenter(gridConfig).y],
                  zoom |-> DEFAULT_ZOOM, width |-> 40, height |-> 40] : dx \in {0, CELL_SIZE * PX}},
                {[indices |-> 0..(NumConcepts - 1), cluster |-> FALSE]},
                MaxRecycleChanges, concepts)
  \/ LoadResolved
  \/ LoadRejected

SpecRecycle == TlInit /\ [][RecycleNext]_vars

\* the ids of the nodes of a list
NodeIds(cards) == {cards[i].id : i \in 1..Len(cards)}

\* the node acquireCard hands out when it is called in this state
Acquired(key, index, x, y) ==
  LET after == acquireCard(pool, key, index, x, y)
  IN after.activeCards[Len(after.activeCards)]

\* C26: after any sequence of update calls, every pooled node is in the active
\* map under exactly one key, which is the node's own key, or in the free list
\* exactly once, never in both; and a node acquired from the free list has the
\* position it is acquired at, full opacity and scale, an image fade of 0, no
\* texture url, no tier flag and no visible image: nothing of the item it showed
\* before.
C26_NodesPartitioned ==
  /\ Cardinality(NodeIds(pool.activeCards)) = Len(pool.activeCards)
  /\ Cardinality(NodeIds(pool.recyclePool)) = Len(pool.recyclePool)
  /\ NodeIds(pool.activeCards) \cap NodeIds(pool.recyclePool) = {}
  /\ NodeIds(pool.activeCards) \cup NodeIds(pool.recyclePool) = 1..pool.created
  /\ Cardinality({pool.activeCards[i].key : i \in 1..Len(pool.activeCards)}) = Len(pool.activeCards)
  /\ pool.recyclePool # <<>> =>
       \A index \in 0..1, x \in {0, CELL_SIZE * PX} :
         LET card == Acquired(getCardKey(index, 0, -1), index, x, -x)
         IN /\ card.id = pool.recyclePool[Len(pool.recyclePool)].id
            /\ card.key = getCardKey(index, 0, -1) /\ card.conceptIndex = index
            /\ card.containerVisible
            /\ card.currentX = x /\ card.targetX = x
            /\ card.currentY = -x /\ card.targetY = -x
            /\ card.currentAlpha = AU /\ card.targetAlpha = AU
            /\ card.currentScale = AU /\ card.targetScale = AU
            /\ card.imageAlpha = 0
            /\ card.currentTextureUrl = Null
            /\ ~card.hasThumb /\ ~card.hasMid
            /\ card.imageSprite # Null =>
                 (~card.imageSprite[1].visible /\ card.imageSprite[1].texture = "EMPTY")

\* a node that showed an image was released and has been acquired again: it
\* is active behind a node that was created after it, while a node is free
C26_Witness ==
  /\ pool.recyclePool # <<>>
  /\ \E i, j \in 1..Len(pool.activeCards) :
       /\ i < j
       /\ pool.activeCards[i].id > pool.activeCards[j].id
       /\ pool.activeCards[j].imageSprite # Null

(***************************************************************************)
(* Claims about the scheduling of frames                                   *)
(***************************************************************************)
\* C27: at most one animation-frame callback is pending at any time, under
\* every interleaving of pointer, wheel and touch events, filter changes, the
\* start-up timeout and frame callbacks, and isRunning is true exactly when a
\* callback is pending (or executing: a frame callback runs to its end in one
\* step).
C27_OneFramePending ==
  /\ cv.raf \in {0, 1}
  /\ cv.isRunning <=> cv.raf = 1

\* an input has started the loop before the start-up timeout has fired
C27_Witness ==
  /\ cv.app
  /\ cv.startTimer
  /\ cv.isRunning
  /\ cv.raf = 1

(***************************************************************************)
(* Clicks on a filtered canvas: the parent changes the filter, and the     *)
(* pointer is pressed and released on the canvas without moving.           *)
(***************************************************************************)
ClickNext ==
  \/ CvInitApp \/ CvStartTimer \/ CvTick \/ CvFilterChange
  \/ CvPointerDown
  \* a press after the filter has changed
  \/ \E p \in CanvasPts :
       /\ vpAux.gestures = MaxGestures
       /\ ~cv.isDragging
       /\ VpAfterInput(onDragStart(vp, p.x, p.y), vpAux.gestures + 1, 0)
       /\ CvAfter(ensureRunning([cv EXCEPT !.isDragging = TRUE, !.hasDragged = FALSE]), pool, tl)
  \/ CvPointerUp
  \/ LoadResolved \/ LoadRejected

SpecClick == TlInit /\ [][ClickNext]_vars

\* C28: the item passed to the item-selected callback is a member of the
\* current eligible (filtered) index set: when the pointer is released without
\* a drag, with a filter active, in cluster mode or not, the callback is called
\* for no item or for an item of filteredIndices.
C28_ClickSelectsEligible ==
  [][(cv.isDragging /\ ~cv'.isDragging /\ ~cv.hasDragged /\ cv'.clicked # Null)
       => cv'.clicked[1] \in cv.filteredIndices]_vars

(***************************************************************************)
(* Claims about the zoom during a pinch                                    *)
(***************************************************************************)
\* C30: while a pinch is in progress the zoom is the one the most recent
\* onPinchMove has set, clamp(initialZoom * currentDistance / initialDistance):
\* a tick that runs between two pinch moves does not change the zoom.
C30_TickKeepsPinchZoom ==
  [][(vp.isPinching /\ vp'.isPinching /\ VpTickStep) => vp'.zoom = vp.zoom]_vars

(***************************************************************************)
(* Two canvases on one page: each is mounted and runs its frames.          *)
(***************************************************************************)
\* initApp of the second instance: lastViewportHash = '' and render(true)
PeerInitApp ==
  /\ ~peer.app
  /\ cv' = peerRender([cv EXCEPT !.lastViewportHash = Null], TRUE)
  /\ peer' = [app |-> TRUE, rendered |-> Some(cv'.visibleCardsCache)]
  /\ UNCHANGED <<vp, vpAux, tl, tlAux, pool, poolAux>>

\* a frame of the second instance: render()
PeerTick ==
  /\ peer.app
  /\ cv' = peerRender(cv, FALSE)
  /\ peer' = [peer EXCEPT !.rendered = Some(cv'.visibleCardsCache)]
  /\ UNCHANGED <<vp, vpAux, tl, tlAux, pool, poolAux>>

TwoCanvasNext ==
  \/ CvInitApp \/ CvStartTimer \/ CvTick
  \/ LoadResolved \/ LoadRejected
  \/ PeerInitApp \/ PeerTick

SpecTwoCanvases == TlInit /\ [][TwoCanvasNext]_vars

\* C29: with two canvas instances mounted at the same time, the visible set
\* an instance passes to its render pool in a frame was computed from that
\* instance's own viewport, grid configuration and item list: no operation on
\* one instance changes what the other renders.  Stated for the second
\* instance, whose viewport does not move.
C29_RendersOwnCards ==
  peer.rendered # Null =>
    peer.rendered[1] = getVisibleCards(PeerViewport, computeGridConfig(Len(PeerConcepts)),
                                       PeerConcepts)

====
